---- MODULE Spec2Model ----
(***************************************************************************)
(* HRBot: the command authorization and dispatch engine of index.js.       *)
(*                                                                         *)
(* The program keeps module-level registries (roles, command bans, mutes,  *)
(* bad words, frozen positions, emote loops) that its event handlers       *)
(* mutate in place.  A handler body is a sequence of synchronous           *)
(* statements between awaits; the model runs each synchronous stretch as   *)
(* one step and keeps what a suspended handler or loop tick still has to   *)
(* do in `awaiting` and `chains`.                                          *)
(*                                                                         *)
(* Handlers are written as functions from a record of the registries to    *)
(* the record after the handler ran, in the order of the statements of     *)
(* the source; an action commits the record to the variables.              *)
(***************************************************************************)
EXTENDS Integers, Sequences, FiniteSets, TLC

VARIABLES
    present,      \* ids of the users in the room (the roster of the Event Bridge)
    now,          \* the clock, in minutes
    permissions,  \* [owners, mods]: the roles document
    bannedUsers,  \* bannedUsers.users: id -> ban record
    mutedUsers,   \* mutedUsers.users: id -> mute record
    badWords,     \* badWords.words, an array of strings
    frozenUsers,  \* frozenUsers.locked: id -> position
    emoteLoops,   \* the Map emoteLoops: id -> [timeoutId, emoteId]
    chains,       \* per user, the performEmote closures and where each one is
    awaiting,     \* per sender, the handler suspended at an await
    userLastSeen, \* userLastSeen: id -> time of the last greeted join
    botLastSetLocation, \* botLastSetLocation: the position set with setbot
    emptyDocs,    \* the documents that loadJson replaced by the empty object
    store,        \* the files of the documents and the writes under way
    correctionEnabled, \* config.features.playerMovementTeleportCorrection.enabled
    autoGreeting, \* config.features.autoGreeting.enabled
    joining,      \* per user: the join times of the playerJoin handlers that
                  \* wait for their greeting to be sent
    stopped,      \* history: users whose last loop request was a processed stop
    step          \* history: what the last step was and what it sent

vars == <<present, now, permissions, bannedUsers, mutedUsers, badWords,
          frozenUsers, emoteLoops, chains, awaiting, userLastSeen,
          botLastSetLocation, emptyDocs, store, correctionEnabled, autoGreeting,
          joining,
          stopped, step>>

-----------------------------------------------------------------------------
(* Bounds of the model *)

\* performEmote closures of one user that may be alive at once
MaxChains == 2
\* the clock stops advancing here
MaxTime == 18
\* writes of saveJson that may be under way at once
MaxWrites == 2

\* bound: the playerJoin handlers of one user waiting for their greeting
MaxJoins == 2

-----------------------------------------------------------------------------
(* Identities and configuration *)

Users == {"u1", "u2"}
BotId == "bot"
Senders == Users \cup {BotId}
ChainIds == 1..MaxChains

\* a timeoutId whose timer has already fired: clearTimeout on it does nothing
FiredTimer == 0

NoId == "noid"
NoEmote == "noemote"
NoTarget == "notarget"

\* config.botPrefix
botPrefix == "!"

\* config.emoteDefinitions: emote keyword -> definition ("broken" has no id)
emoteDefinitions ==
    [wave |-> [id |-> "emote-wave"],
     nod |-> [id |-> "emote-nod"],
     broken |-> [id |-> NoId]]

EmoteNames == DOMAIN emoteDefinitions

-----------------------------------------------------------------------------
(* Map helpers: a JS object or Map is a function whose domain is its keys *)

mapDelete(f, k) == [x \in (DOMAIN f) \ {k} |-> f[x]]

mapSet(f, k, v) == [x \in (DOMAIN f) \cup {k} |-> IF x = k THEN v ELSE f[x]]

EmptyMap == [x \in {} |-> 0]

-----------------------------------------------------------------------------
(* The registries as one record, threaded through a handler *)

Registries ==
    [perm |-> permissions, ban |-> bannedUsers, mute |-> mutedUsers,
     words |-> badWords, frozen |-> frozenUsers, loops |-> emoteLoops,
     chains |-> chains, wait |-> awaiting, stopped |-> stopped,
     lastSeen |-> userLastSeen, anchor |-> botLastSetLocation,
     joining |-> joining,
     empty |-> emptyDocs, failing |-> store.failing, failed |-> store.failed,
     files |-> store.files, saves |-> <<>>, thrown |-> FALSE,
     replies |-> <<>>, acts |-> <<>>, roleChecks |-> 0, handler |-> "none"]

\* the in-memory object that is written to the file of document doc
content(s, doc) ==
    CASE doc = "roles" -> s.perm
      [] doc = "bannedCommands" -> s.ban
      [] doc = "mutedMessages" -> s.mute
      [] doc = "badWords" -> s.words
      [] doc = "frozenUsers" -> s.frozen
      [] doc = "userLastSeen" -> s.lastSeen
      [] OTHER -> s.anchor

Documents ==
    {"roles", "bannedCommands", "mutedMessages", "badWords", "frozenUsers",
     "userLastSeen", "botLocation"}

\* saveJson that puts the in-memory object back to what the file holds when
\* the write fails
saveJson_rollsBack(s, doc) ==
    IF doc \in s.failing
    THEN CASE doc = "roles" -> [s EXCEPT !.perm = s.files[doc], !.failed = @ \cup {doc}]
           [] doc = "bannedCommands" ->
                 [s EXCEPT !.ban = s.files[doc], !.failed = @ \cup {doc}]
           [] doc = "mutedMessages" ->
                 [s EXCEPT !.mute = s.files[doc], !.failed = @ \cup {doc}]
           [] doc = "badWords" ->
                 [s EXCEPT !.words = s.files[doc], !.failed = @ \cup {doc}]
           [] doc = "frozenUsers" ->
                 [s EXCEPT !.frozen = s.files[doc], !.failed = @ \cup {doc}]
           [] doc = "userLastSeen" ->
                 [s EXCEPT !.lastSeen = s.files[doc], !.failed = @ \cup {doc}]
           [] OTHER -> [s EXCEPT !.anchor = s.files[doc], !.failed = @ \cup {doc}]
    ELSE [s EXCEPT !.saves = Append(@, [doc |-> doc, data |-> content(s, doc)])]

\* saveJson(filePath, data): JSON.stringify(data) is taken when saveJson is
\* called and fs.writeFile starts; a write that fails is logged and nothing
\* is thrown
saveJson(s, doc) ==
    IF doc \in s.failing
    THEN [s EXCEPT !.failed = @ \cup {doc}]
    ELSE [s EXCEPT !.saves = Append(@, [doc |-> doc, data |-> content(s, doc)])]

\* an exception leaves the handler: a TypeError on a document that is the
\* empty object
throw(s) == [s EXCEPT !.thrown = TRUE]

\* the files after the writes ws landed one after the other
RECURSIVE land(_, _)
land(files, ws) ==
    IF ws = <<>> THEN files
    ELSE land([files EXCEPT ![Head(ws).doc] = Head(ws).data], Tail(ws))

\* the in-memory objects of the documents
Memory ==
    [roles |-> permissions, bannedCommands |-> bannedUsers,
     mutedMessages |-> mutedUsers, badWords |-> badWords,
     frozenUsers |-> frozenUsers, userLastSeen |-> userLastSeen,
     botLocation |-> botLastSetLocation]

\* a store whose files hold what is in memory; slow tells whether writes stay
\* under way after the step that started them, failing which files cannot be
\* written
Store(slow, failing) ==
    [files |-> Memory, inflight |-> <<>>, failed |-> {}, failing |-> failing,
     slow |-> slow]

\* bot.message.send / bot.direct.send / bot.whisper.send of a reply
reply(s, r) == [s EXCEPT !.replies = Append(@, r)]

\* an action primitive of the Event Bridge invoked by the handler
act(s, a) == [s EXCEPT !.acts = Append(@, a)]

\* the handler of this step is suspended at an await
suspend(s, u, k) == [s EXCEPT !.wait = mapSet(@, u, k)]

resume(s, u) == [s EXCEPT !.wait = mapDelete(@, u)]

\* an event: the handler or continuation that runs, for which user, which
\* performEmote closure (0 when none) and which message (<<>> when none)
event(op, u, c, m) == [op |-> op, u |-> u, c |-> c, msg |-> m]

\* the variables after the step of event ev that left the registries s
Commit(ev, s) ==
    /\ step' = [op |-> ev.op, u |-> ev.u, c |-> ev.c, msg |-> ev.msg,
                replies |-> s.replies, acts |-> s.acts,
                roleChecks |-> s.roleChecks, handler |-> s.handler,
                threw |-> s.thrown]
    /\ permissions' = s.perm
    /\ bannedUsers' = s.ban
    /\ mutedUsers' = s.mute
    /\ badWords' = s.words
    /\ frozenUsers' = s.frozen
    /\ emoteLoops' = s.loops
    /\ chains' = s.chains
    /\ awaiting' = s.wait
    /\ stopped' = s.stopped
    /\ userLastSeen' = s.lastSeen
    /\ botLastSetLocation' = s.anchor
    /\ joining' = s.joining
    /\ store.slow => Len(store.inflight) + Len(s.saves) <= MaxWrites
    /\ store' = [store EXCEPT
                    !.files = IF store.slow THEN @ ELSE land(@, s.saves),
                    !.inflight = IF store.slow THEN @ \o s.saves ELSE @,
                    !.failed = s.failed]
    /\ UNCHANGED <<correctionEnabled, autoGreeting, emptyDocs>>

-----------------------------------------------------------------------------
(* Permissions and moderation helpers *)

\* JSON null (timestamp and duration_minutes of a permanent ban)
null == -1

\* duration_minutes of the mute written by idmute
MuteMinutes == 15

getRole(s, userId) ==
    IF userId \in s.perm.owners THEN "owner"
    ELSE IF userId \in s.perm.mods THEN "mod"
    ELSE "basic"

hasPermission(s, userId, requiredRole) ==
    LET userRole == getRole(s, userId) IN
    IF requiredRole = "basic" THEN TRUE
    ELSE IF requiredRole = "mod" /\ (userRole = "mod" \/ userRole = "owner") THEN TRUE
    ELSE IF requiredRole = "owner" /\ userRole = "owner" THEN TRUE
    ELSE FALSE

\* truthy with null taken for a duration
truthy_nullIsDuration(d) == d # 0

\* if (banInfo.duration_minutes): null and 0 are falsy
truthy(d) == d # null /\ d # 0

\* expired with the boundary minute counted as run out
expired_atBoundary(info, t) == (t - info.timestamp) >= info.duration_minutes

\* elapsedMinutes > duration_minutes, of a record that carries a duration
expired(info, t) == (t - info.timestamp) > info.duration_minutes

\* isBanned that reports only timed bans
isBanned_timedOnly(s, userId, t) ==
    IF userId \notin DOMAIN s.ban THEN FALSE
    ELSE truthy(s.ban[userId].duration_minutes) /\ ~expired(s.ban[userId], t)

\* what isBanned(userId) returns at time t
isBanned(s, userId, t) ==
    IF userId \notin DOMAIN s.ban THEN FALSE
    ELSE IF truthy(s.ban[userId].duration_minutes) /\ expired(s.ban[userId], t) THEN FALSE
    ELSE TRUE

\* the registries after isBanned(userId) at time t: an expired record is deleted
isBannedSt(s, userId, t) ==
    IF userId \in DOMAIN s.ban /\ truthy(s.ban[userId].duration_minutes)
       /\ expired(s.ban[userId], t)
    THEN saveJson([s EXCEPT !.ban = mapDelete(@, userId)], "bannedCommands")
    ELSE s

\* what isMuted(userId) returns at time t
isMuted(s, userId, t) ==
    IF userId \notin DOMAIN s.mute THEN FALSE
    ELSE IF expired(s.mute[userId], t) THEN FALSE
    ELSE TRUE

\* the registries after isMuted(userId) at time t
isMutedSt(s, userId, t) ==
    IF userId \in DOMAIN s.mute /\ expired(s.mute[userId], t)
    THEN saveJson([s EXCEPT !.mute = mapDelete(@, userId)], "mutedMessages")
    ELSE s

-----------------------------------------------------------------------------
(* Emote loops: handleEmoteLoopCommand, performEmote, handleStopEmoteCommand *)

DeadChain == [pc |-> "dead", emote |-> NoEmote]

LiveChains(ch) == {c \in ChainIds : ch[c].pc # "dead"}

\* the slot a new performEmote closure takes
FreeChain(ch) == CHOOSE c \in ChainIds :
    /\ ch[c].pc = "dead"
    /\ \A d \in ChainIds : ch[d].pc = "dead" => c <= d

\* clearTimeout(id): the pending timer with that id never fires
clearTimeout(ch, id) ==
    [c \in ChainIds |-> IF c = id /\ ch[c].pc = "timer" THEN DeadChain ELSE ch[c]]

\* clearTimeout(emoteLoops.get(id).timeoutId); emoteLoops.delete(id)
cancelLoop(s, u) ==
    [s EXCEPT !.chains[u] = clearTimeout(@, s.loops[u].timeoutId),
              !.loops = mapDelete(@, u)]

\* performEmote() up to its first await: the roster request is sent
performEmoteCall(s, u, e) ==
    [s EXCEPT !.chains[u][FreeChain(s.chains[u])] = [pc |-> "roster", emote |-> e]]

\* handleEmoteLoopCommand from the emoteDef lookup on
emoteLoopStart(s, u, e) ==
    IF emoteDefinitions[e].id = NoId
    THEN reply(s, "UnknownEmote")
    ELSE reply(performEmoteCall(s, u, e), "Performing")

\* handleEmoteLoopCommand: a loop of the user is stopped first, and the
\* handler waits for the "Stopped previous emote loop" message to be sent
handleEmoteLoopCommand(s, u, e) ==
    IF u \in DOMAIN s.loops
    THEN suspend(reply(cancelLoop(s, u), "StoppedPrevious"), u,
                 [kind |-> "startLoop", emote |-> e])
    ELSE emoteLoopStart(s, u, e)

\* handleStopEmoteCommand that stops the loop of every user
handleStopEmoteCommand_stopsAll(s, u) ==
    IF u \in DOMAIN s.loops
    THEN reply([s EXCEPT !.chains = [v \in DOMAIN @ |->
                                        IF v \in DOMAIN s.loops
                                        THEN clearTimeout(@[v], s.loops[v].timeoutId)
                                        ELSE @[v]],
                         !.loops = EmptyMap], "LoopStopped")
    ELSE reply(s, "NoActiveLoop")

handleStopEmoteCommand(s, u) ==
    IF u \in DOMAIN s.loops
    THEN reply(cancelLoop(s, u), "LoopStopped")
    ELSE reply(s, "NoActiveLoop")

\* performEmoteAbsent that ends the closure and keeps the registry entry
performEmoteAbsent_keepsEntry(s, u, c) ==
    [s EXCEPT !.chains[u][c] = DeadChain]

\* performEmote after the roster answered and the user is not in it
performEmoteAbsent(s, u, c) ==
    LET s1 == IF u \in DOMAIN s.loops THEN cancelLoop(s, u) ELSE s IN
    [s1 EXCEPT !.chains[u][c] = DeadChain]

\* performEmote after the roster answered and the user is in it: the emote
\* action is invoked
performEmoteInvoke(s, u, c) ==
    act([s EXCEPT !.chains[u][c].pc = "emote"],
        [kind |-> "emote", target |-> u,
         emoteId |-> emoteDefinitions[s.chains[u][c].emote].id])

\* performEmote when the roster request is rejected: the closure ends with
\* the rejection and the registry keeps the id of the timer that had fired
performEmoteLookupFailed(s, u, c) ==
    [s EXCEPT !.chains[u][c] = DeadChain,
              !.loops = IF u \in DOMAIN @ /\ @[u].timeoutId = c
                        THEN [@ EXCEPT ![u].timeoutId = FiredTimer] ELSE @]

\* performEmote after the emote action resolved: reschedule and register
performEmoteReschedule(s, u, c) ==
    [s EXCEPT !.chains[u][c].pc = "timer",
              !.loops = mapSet(@, u,
                  [timeoutId |-> c,
                   emoteId |-> emoteDefinitions[s.chains[u][c].emote].id])]

\* performEmote after the emote action was rejected
performEmoteFailed(s, u, c) ==
    LET s1 == IF u \in DOMAIN s.loops
              THEN reply(cancelLoop(s, u), "LoopError") ELSE s IN
    [s1 EXCEPT !.chains[u][c] = DeadChain]

\* playerLeave that also drops the frozen position of the user
playerLeave_unfreezes(s, u) ==
    [(IF u \in DOMAIN s.loops THEN cancelLoop(s, u) ELSE s)
        EXCEPT !.frozen = mapDelete(@, u)]

\* the playerJoin handler up to its await bot.message.send(...); t is the
\* time of the join (const now = new Date())
playerJoin(s, u, t, enabled) ==
    IF enabled /\ u # BotId
    THEN [reply(s, IF u \in DOMAIN s.lastSeen
                   THEN "ReturningGreeting" ELSE "FirstTimeGreeting")
             EXCEPT !.joining[u] = Append(@, t)]
    ELSE s

RECURSIVE dropAt(_, _)
dropAt(q, i) ==
    IF i = 1 THEN Tail(q) ELSE <<Head(q)>> \o dropAt(Tail(q), i - 1)

\* the playerJoin handler after the i-th pending greeting of u was sent:
\* a rejected send ends the handler
greetingSent(s, u, i, ok) ==
    LET s1 == [s EXCEPT !.joining[u] = dropAt(@, i)] IN
    IF ok
    THEN saveJson([s1 EXCEPT !.lastSeen = mapSet(@, u, s.joining[u][i])],
                  "userLastSeen")
    ELSE throw(s1)

\* the playerLeave handler
playerLeave(s, u) ==
    IF u \in DOMAIN s.loops THEN cancelLoop(s, u) ELSE s

-----------------------------------------------------------------------------
(* Messages.  A message is a sequence of whitespace-separated tokens; a     *)
(* token is its leading sigil ("!" the prefix, "@" a mention, "" none), its *)
(* letters in lower case, and whether the text as typed had capitals.       *)

tok(sg, w) == [sigil |-> sg, word |-> w, cased |-> FALSE]

Tok(sg, w) == [sigil |-> sg, word |-> w, cased |-> TRUE]

\* String.prototype.toLowerCase on a message
toLowerCase(m) == [i \in DOMAIN m |-> [m[i] EXCEPT !.cased = FALSE]]

\* message.startsWith(config.botPrefix)
startsWithPrefix(m) == m[1].sigil = botPrefix

\* /^(\w+)\s+@(\w+)$/ on the lowercased message
emoteRegex(m) == Len(m) = 2 /\ m[1].sigil = "" /\ m[2].sigil = "@"

\* lowerCaseMessage === emoteName.toLowerCase() for a key of emoteDefinitions
isEmoteName(m) ==
    Len(m) = 1 /\ toLowerCase(m)[1].sigil = "" /\ toLowerCase(m)[1].word \in EmoteNames

\* args[0] && args[0].startsWith('@')
hasTargetArg(m) == Len(m) >= 2 /\ m[2].sigil = "@"

\* includes(hay, needle) on the words of the model: needle is a substring of hay
includes(hay, needle) ==
    \/ hay = needle
    \/ <<hay, needle>> \in {<<"spamming", "spam">>}

\* a string apart from the sigil of its token: its letters in lower case and
\* whether it has capitals
str(w, c) == [word |-> w, cased |-> c]

\* String.prototype.toLowerCase on a string
lowerCase(w) == [w EXCEPT !.cased = FALSE]

\* hay.includes(needle) for a hay in lower case: a needle with capitals is in
\* no such hay
includesStr(hay, needle) == ~needle.cased /\ includes(hay.word, needle.word)

\* containsBadWord on the array words
containsBadWordIn(words, m) ==
    \E i \in DOMAIN words : \E j \in DOMAIN m :
        includesStr(toLowerCase(m)[j], words[i])

\* containsBadWord(message)
containsBadWord(s, m) == containsBadWordIn(s.words, m)

\* badWords.words.includes(w)
inWords(words, w) == \E i \in DOMAIN words : words[i] = w

\* addBadWord that stores the word as typed
addBadWord_asTyped(words, word) ==
    IF ~inWords(words, word)
    THEN [words |-> Append(words, word), ret |-> TRUE]
    ELSE [words |-> words, ret |-> FALSE]

\* addBadWord(word): the array afterwards and the value returned
addBadWord(words, word) ==
    IF ~inWords(words, lowerCase(word))
    THEN [words |-> Append(words, lowerCase(word)), ret |-> TRUE]
    ELSE [words |-> words, ret |-> FALSE]

\* badWords.words.filter(w => w !== lowerCaseWord)
RECURSIVE filterOut(_, _)
filterOut(words, w) ==
    IF words = <<>> THEN <<>>
    ELSE IF Head(words) = w THEN filterOut(Tail(words), w)
    ELSE <<Head(words)>> \o filterOut(Tail(words), w)

\* removeBadWord that looks for the word as typed
removeBadWord_asTyped(words, word) ==
    [words |-> filterOut(words, word),
     ret |-> Len(filterOut(words, word)) < Len(words)]

\* removeBadWord(word): the array afterwards and the value returned
removeBadWord(words, word) ==
    [words |-> filterOut(words, lowerCase(word)),
     ret |-> Len(filterOut(words, lowerCase(word))) < Len(words)]

\* username of a user id; users are named by their id
\* bot.room.players.id(username): the id of the user of that name in the room
rosterId(name) ==
    IF ~name.cased /\ name.word \in present \cup {BotId} THEN name.word ELSE NoTarget

\* players.find(p => p.username.toLowerCase() === targetUsername)
rosterFind(name) ==
    IF name.word \in present \cup {BotId} THEN name.word ELSE NoTarget

-----------------------------------------------------------------------------
(* config.chatScope and config.commandPermissions; the tables hold the      *)
(* command names as "!name" and are read with `!${command}`                 *)

public_chat_only ==
    {"stop", "myid", "idban", "idunban", "idmute", "idunmute", "role", "unrole",
     "summon", "freeze", "unfreeze", "k", "b", "m", "setbot"}

dm_only == {"addowner", "removeowner", "bad", "rbad", "list"}

dm_public_chat == {"help", "mod"}

commandPermissions ==
    [mod |-> {"mod", "idban", "idunban", "idmute", "idunmute", "list",
              "summon", "freeze", "unfreeze", "k", "b", "m", "setbot"},
     owner |-> {"role", "unrole", "addowner", "removeowner", "bad", "rbad", "list"}]

\* config.features.aiReplyInWhispers
aiReplyInWhispers == TRUE

-----------------------------------------------------------------------------
(* Command handlers *)

PermanentBan == [timestamp |-> null, duration_minutes |-> null]

\* handleIdBanCommand without its own look at the role of the sender
handleIdBanCommand_unchecked(s, sender, target, t) ==
    IF getRole(s, target) = "owner" \/ getRole(s, target) = "mod"
    THEN reply(s, "CannotBanProtected")
    ELSE IF isBanned(s, target, t) THEN reply(isBannedSt(s, target, t), "AlreadyBanned")
    ELSE reply(saveJson([isBannedSt(s, target, t) EXCEPT
                             !.ban = mapSet(@, target, PermanentBan)],
                        "bannedCommands"), "Banned")

handleIdBanCommand(s, sender, target, t) ==
    IF ~hasPermission(s, sender, "mod") THEN reply(s, "NoPermission")
    ELSE IF getRole(s, target) = "owner" \/ getRole(s, target) = "mod"
    THEN reply(s, "CannotBanProtected")
    ELSE IF isBanned(s, target, t) THEN reply(isBannedSt(s, target, t), "AlreadyBanned")
    ELSE reply(saveJson([isBannedSt(s, target, t) EXCEPT
                             !.ban = mapSet(@, target, PermanentBan)],
                        "bannedCommands"), "Banned")

handleIdUnbanCommand(s, sender, target, t) ==
    IF ~hasPermission(s, sender, "mod") THEN reply(s, "NoPermission")
    ELSE IF ~isBanned(s, target, t) THEN reply(isBannedSt(s, target, t), "NotBanned")
    ELSE reply(saveJson([s EXCEPT !.ban = mapDelete(@, target)], "bannedCommands"),
               "Unbanned")

\* handleIdMuteCommand that issues the mute again for a muted target
handleIdMuteCommand_resets(s, sender, target, t) ==
    IF ~hasPermission(s, sender, "mod") THEN reply(s, "NoPermission")
    ELSE IF getRole(s, target) = "owner" \/ getRole(s, target) = "mod"
    THEN reply(s, "CannotMuteProtected")
    ELSE IF isMuted(s, target, t)
    THEN reply(saveJson([s EXCEPT !.mute = mapSet(@, target,
                             [timestamp |-> t, duration_minutes |-> MuteMinutes])],
                        "mutedMessages"), "AlreadyMuted")
    ELSE reply(saveJson([isMutedSt(s, target, t) EXCEPT !.mute = mapSet(@, target,
                             [timestamp |-> t, duration_minutes |-> MuteMinutes])],
                        "mutedMessages"), "Muted")

handleIdMuteCommand(s, sender, target, t) ==
    IF ~hasPermission(s, sender, "mod") THEN reply(s, "NoPermission")
    ELSE IF getRole(s, target) = "owner" \/ getRole(s, target) = "mod"
    THEN reply(s, "CannotMuteProtected")
    ELSE IF isMuted(s, target, t) THEN reply(s, "AlreadyMuted")
    ELSE reply(saveJson([isMutedSt(s, target, t) EXCEPT !.mute = mapSet(@, target,
                             [timestamp |-> t, duration_minutes |-> MuteMinutes])],
                        "mutedMessages"), "Muted")

handleIdUnmuteCommand(s, sender, target, t) ==
    IF ~hasPermission(s, sender, "mod") THEN reply(s, "NoPermission")
    ELSE IF ~isMuted(s, target, t) THEN reply(isMutedSt(s, target, t), "NotMuted")
    ELSE reply(saveJson([s EXCEPT !.mute = mapDelete(@, target)], "mutedMessages"),
               "Unmuted")

\* handleRoleCommand without the look at the owner role of the target
handleRoleCommand_anyTarget(s, sender, target) ==
    IF ~hasPermission(s, sender, "owner") THEN reply(s, "NoPermission")
    ELSE IF target \in s.perm.mods THEN reply(s, "AlreadyMod")
    ELSE reply(saveJson([s EXCEPT !.perm.mods = @ \cup {target}], "roles"),
               "RoleAssigned")

handleRoleCommand(s, sender, target) ==
    IF ~hasPermission(s, sender, "owner") THEN reply(s, "NoPermission")
    ELSE IF getRole(s, target) = "owner" THEN reply(s, "CannotChangeOwner")
    ELSE IF target \in s.perm.mods THEN reply(s, "AlreadyMod")
    ELSE reply(saveJson([s EXCEPT !.perm.mods = @ \cup {target}], "roles"),
               "RoleAssigned")

handleUnroleCommand(s, sender, target) ==
    IF ~hasPermission(s, sender, "owner") THEN reply(s, "NoPermission")
    ELSE IF getRole(s, target) = "owner" THEN reply(s, "CannotChangeOwner")
    ELSE IF target \in s.perm.mods
    THEN reply(saveJson([s EXCEPT !.perm.mods = @ \ {target}], "roles"),
               "RoleRemoved")
    ELSE reply(s, "NotMod")

\* handleAddOwnerCommand that leaves the mods list alone
handleAddOwnerCommand_keepsMod(s, sender, target) ==
    IF ~hasPermission(s, sender, "owner") THEN reply(s, "MustBeOwner")
    ELSE IF target \in s.perm.owners THEN reply(s, "AlreadyOwner")
    ELSE reply(saveJson([s EXCEPT !.perm.owners = @ \cup {target}], "roles"),
               "OwnerAssigned")

handleAddOwnerCommand(s, sender, target) ==
    IF ~hasPermission(s, sender, "owner") THEN reply(s, "MustBeOwner")
    ELSE IF target \in s.perm.owners THEN reply(s, "AlreadyOwner")
    ELSE reply(saveJson([s EXCEPT !.perm.owners = @ \cup {target},
                                  !.perm.mods = @ \ {target}], "roles"),
               "OwnerAssigned")

\* handleRemoveOwnerCommand without the test for the sender herself
handleRemoveOwnerCommand_selfAllowed(s, sender, target) ==
    IF ~hasPermission(s, sender, "owner")
    THEN reply(s, "MustBeOwnerNotSelf")
    ELSE IF target \in s.perm.owners
    THEN reply(saveJson([s EXCEPT !.perm.owners = @ \ {target}], "roles"),
               "OwnerRemoved")
    ELSE reply(s, "NotOwner")

handleRemoveOwnerCommand(s, sender, target) ==
    IF ~hasPermission(s, sender, "owner") \/ sender = target
    THEN reply(s, "MustBeOwnerNotSelf")
    ELSE IF target \in s.perm.owners
    THEN reply(saveJson([s EXCEPT !.perm.owners = @ \ {target}], "roles"),
               "OwnerRemoved")
    ELSE reply(s, "NotOwner")

\* addBadWord(word) from the "bad" case, with its reply
handleBad(s, w) ==
    IF "badWords" \in s.empty THEN throw(s)
    ELSE IF addBadWord(s.words, w).ret
    THEN reply(saveJson([s EXCEPT !.words = addBadWord(s.words, w).words],
                        "badWords"), "BadWordAdded")
    ELSE reply(s, "BadWordDuplicate")

\* removeBadWord(word) from the "rbad" case, with its reply
handleRbad(s, w) ==
    IF "badWords" \in s.empty THEN throw(s)
    ELSE IF removeBadWord(s.words, w).ret
    THEN reply(saveJson([s EXCEPT !.words = removeBadWord(s.words, w).words],
                        "badWords"), "BadWordRemoved")
    ELSE reply(s, "BadWordAbsent")

-----------------------------------------------------------------------------
(* Room moderation and position handlers.  Coordinates are in thousandths   *)
(* of a unit.  A handler that awaits a request of its own is suspended with *)
(* the message it serves and the target it resolved.                        *)

pos(x, y, z, facing) == [x |-> x, y |-> y, z |-> z, facing |-> facing]

\* a position request answered with nothing, and the cache without a position
NoPosition == pos(null, null, null, "none")

\* config.defaultBotLocation
defaultBotLocation == pos(0, 0, 0, "front")

\* the handler is suspended at an await of kind k
hold(s, u, k, m, target) ==
    suspend(s, u, [kind |-> k, chan |-> "public", msg |-> m, target |-> target])

\* getRole(targetUserId) === 'owner' || getRole(targetUserId) === 'mod'
protectedRole(s, target) ==
    getRole(s, target) = "owner" \/ getRole(s, target) = "mod"

\* handleSummonCommand up to its lookup of the target
handleSummonCommand(s, u, m) == hold(s, u, "summonId", m, NoTarget)

\* handleSummonCommand after bot.room.players.id(targetUsername) answered
summonNamed(s, u, m, targetId) ==
    IF targetId = NoTarget THEN reply(s, "NotFound")
    ELSE IF protectedRole(s, targetId) THEN reply(s, "CannotSummonProtected")
    ELSE hold(s, u, "summonPos", m, targetId)

\* handleSummonCommand after bot.room.players.position(commandSender.id):
\* failed when the request was rejected, done when the teleport resolved
summonPlaced(s, u, target, p, failed, done) ==
    IF failed THEN reply(s, "SummonFailed")
    ELSE IF p = NoPosition THEN reply(s, "NoSenderPosition")
    ELSE reply(act(s, [kind |-> "teleport", target |-> target, pos |-> p]),
               IF done THEN "Summoned" ELSE "SummonFailed")

\* handleFreezeCommand up to bot.room.players.username(targetUserId)
handleFreezeCommand(s, u, m, target) == hold(s, u, "freezeName", m, target)

\* freezeNamed without the look at the role of the target
freezeNamed_anyTarget(s, u, m, target) ==
    IF target = BotId
    THEN reply(s, "CannotFreezeProtected")
    ELSE hold(s, u, "freezePos", m, target)

\* handleFreezeCommand after the username answered
freezeNamed(s, u, m, target) ==
    IF protectedRole(s, target) \/ target = BotId
    THEN reply(s, "CannotFreezeProtected")
    ELSE hold(s, u, "freezePos", m, target)

\* handleFreezeCommand after bot.room.players.position(targetUserId)
freezePlaced(s, u, target, p, failed) ==
    IF failed THEN reply(s, "FreezeFailed")
    ELSE IF p = NoPosition THEN reply(s, "NoTargetPosition")
    ELSE reply(saveJson([s EXCEPT !.frozen = mapSet(@, target, p)], "frozenUsers"),
               "Frozen")

\* handleUnfreezeCommand up to bot.room.players.username(targetUserId)
handleUnfreezeCommand(s, u, m, target) ==
    IF target \notin DOMAIN s.frozen THEN reply(s, "NotFrozen")
    ELSE hold(s, u, "unfreezeName", m, target)

\* handleUnfreezeCommand after the username answered
unfreezeNamed(s, u, target) ==
    reply(saveJson([s EXCEPT !.frozen = mapDelete(@, target)], "frozenUsers"),
          "Unfrozen")

\* handleKickCommand, handleBanCommand and handleMuteCommand after the
\* username answered: action is kick, ban or mute; done when it resolved
punishNamed(s, u, action, target, done) ==
    IF protectedRole(s, target) \/ target = BotId
    THEN reply(s, "CannotPunishProtected")
    ELSE reply(act(s, [kind |-> action, target |-> target]),
               IF done THEN "Punished" ELSE "PunishFailed")

handleKickCommand(s, u, m, target) == hold(s, u, "kickName", m, target)

handleBanCommand(s, u, m, target) == hold(s, u, "banName", m, target)

handleMuteCommand(s, u, m, target) == hold(s, u, "muteName", m, target)

\* handleSetBotCommand up to bot.room.players.position(user.id)
handleSetBotCommand(s, u, m) == hold(s, u, "setbotPos", m, NoTarget)

\* setbotPlaced with the anchor assigned ahead of the teleport of the bot
setbotPlaced_anchorFirst(s, u, p, failed, done) ==
    IF failed THEN reply(s, "SetBotFailed")
    ELSE IF p = NoPosition THEN reply(s, "NoSenderPosition")
    ELSE LET s1 == act([s EXCEPT !.anchor = p],
                       [kind |-> "teleport", target |-> BotId, pos |-> p]) IN
         IF done THEN reply(saveJson(s1, "botLocation"), "BotLocationSaved")
         ELSE reply(s1, "SetBotFailed")

\* handleSetBotCommand after bot.room.players.position(user.id): failed when
\* the request was rejected, done when the teleport of the bot resolved
setbotPlaced(s, u, p, failed, done) ==
    IF failed THEN reply(s, "SetBotFailed")
    ELSE IF p = NoPosition THEN reply(s, "NoSenderPosition")
    ELSE LET s1 == act(s, [kind |-> "teleport", target |-> BotId, pos |-> p]) IN
         IF done
         THEN reply(saveJson([s1 EXCEPT !.anchor = p], "botLocation"),
                    "BotLocationSaved")
         ELSE reply(s1, "SetBotFailed")

\* the awaits of the handlers above
HandlerKinds ==
    {"summonId", "summonPos", "freezeName", "freezePos", "unfreezeName",
     "kickName", "banName", "muteName", "setbotPos"}

\* the handler suspended as k goes on after its request was answered with
\* position p (where it asked for one); a rejected request ends the handler,
\* with a reply where the await is inside a try
handlerResume(s, u, k, ok, p, done) ==
    CASE k.kind = "summonId" ->
            IF ok THEN summonNamed(s, u, k.msg, rosterId(k.msg[2])) ELSE s
      [] k.kind = "summonPos" -> summonPlaced(s, u, k.target, p, ~ok, done)
      [] k.kind = "freezeName" ->
            IF ok THEN freezeNamed(s, u, k.msg, k.target) ELSE s
      [] k.kind = "freezePos" -> freezePlaced(s, u, k.target, p, ~ok)
      [] k.kind = "unfreezeName" ->
            IF ok THEN unfreezeNamed(s, u, k.target) ELSE s
      [] k.kind = "kickName" ->
            IF ok THEN punishNamed(s, u, "kick", k.target, done) ELSE s
      [] k.kind = "banName" ->
            IF ok THEN punishNamed(s, u, "ban", k.target, done) ELSE s
      [] k.kind = "setbotPos" -> setbotPlaced(s, u, p, ~ok, done)
      [] OTHER ->
            IF ok THEN punishNamed(s, u, "mute", k.target, done) ELSE s

\* const tolerance = 0.01
tolerance == 10

\* config.features.playerMovementTeleportCorrection.y_threshold
y_threshold == 2000

\* config.features.playerMovementTeleportCorrection.max_distance_teleport
max_distance_teleport == 5000

abs(n) == IF n < 0 THEN -n ELSE n

movedFromLocked(newPosition, lockedPos) ==
    \/ abs(newPosition.x - lockedPos.x) > tolerance
    \/ abs(newPosition.y - lockedPos.y) > tolerance
    \/ abs(newPosition.z - lockedPos.z) > tolerance

\* deltaY > y_threshold || distance > max_distance_teleport, the square root
\* taken out of the comparison
significantMove(newPosition, lastKnownPos) ==
    LET dx == newPosition.x - lastKnownPos.x
        dy == newPosition.y - lastKnownPos.y
        dz == newPosition.z - lastKnownPos.z
    IN  \/ abs(dy) > y_threshold
        \/ dx * dx + dy * dy + dz * dz > max_distance_teleport * max_distance_teleport

\* playerMove in which a frozen user who kept to the locked pose is handled
\* by the movement correction as well
playerMove_fallsThrough(s, u, newPosition, lastKnownPos, enabled) ==
    IF ~(enabled /\ u # BotId) THEN s
    ELSE IF u \in DOMAIN s.frozen /\ movedFromLocked(newPosition, s.frozen[u])
    THEN act(s, [kind |-> "teleport", target |-> u, pos |-> s.frozen[u]])
    ELSE IF lastKnownPos # NoPosition /\ significantMove(newPosition, lastKnownPos)
    THEN act(s, [kind |-> "teleport", target |-> u, pos |-> newPosition])
    ELSE s

\* the playerMove handler; lastKnownPos is bot.room.cache.position(user.id)
playerMove(s, u, newPosition, lastKnownPos, enabled) ==
    IF ~(enabled /\ u # BotId) THEN s
    ELSE IF u \in DOMAIN s.frozen
    THEN IF movedFromLocked(newPosition, s.frozen[u])
         THEN act(s, [kind |-> "teleport", target |-> u, pos |-> s.frozen[u]])
         ELSE s
    ELSE IF lastKnownPos # NoPosition /\ significantMove(newPosition, lastKnownPos)
    THEN act(s, [kind |-> "teleport", target |-> u, pos |-> newPosition])
    ELSE s

-----------------------------------------------------------------------------
(* The chatCreate handler (public chat) *)

\* requiredRole with the owner list read first and the mod list last
requiredRole_modLast(command) ==
    IF command \in commandPermissions.mod THEN "mod"
    ELSE IF command \in commandPermissions.owner THEN "owner"
    ELSE "basic"

\* let requiredRole = 'basic'; mod list, then owner list
requiredRole(command) ==
    IF command \in commandPermissions.owner THEN "owner"
    ELSE IF command \in commandPermissions.mod THEN "mod"
    ELSE "basic"

\* the handler named by the switch runs
enter(s, name) == [s EXCEPT !.handler = name]

\* the role lookup of the router
roleLookup(s) == [s EXCEPT !.roleChecks = @ + 1]

\* switch (command) of chatCreate, for the commands of the model's messages
switchPublic(s, u, m, command, targetId, t) ==
    CASE command = "help" -> reply(enter(s, "help"), "Help")
      [] command = "mod" -> reply(enter(s, "mod"), "ModHelp")
      [] command = "stop" ->
            [handleStopEmoteCommand(enter(s, "stop"), u) EXCEPT
                 !.stopped = @ \cup {u}]
      [] command = "myid" -> reply(enter(s, "myid"), "MyId")
      [] command = "setbot" -> handleSetBotCommand(enter(s, "setbot"), u, m)
      [] command \in {"idban", "idunban", "idmute", "idunmute", "role", "unrole"} ->
            IF targetId = NoTarget THEN reply(s, "Usage")
            ELSE CASE command = "idban" ->
                        handleIdBanCommand(enter(s, "idban"), u, targetId, t)
                   [] command = "idunban" ->
                        handleIdUnbanCommand(enter(s, "idunban"), u, targetId, t)
                   [] command = "idmute" ->
                        handleIdMuteCommand(enter(s, "idmute"), u, targetId, t)
                   [] command = "idunmute" ->
                        handleIdUnmuteCommand(enter(s, "idunmute"), u, targetId, t)
                   [] command = "role" ->
                        handleRoleCommand(enter(s, "role"), u, targetId)
                   [] OTHER ->
                        handleUnroleCommand(enter(s, "unrole"), u, targetId)
      [] command \in {"summon", "freeze", "unfreeze", "k", "b", "m"} ->
            IF targetId = NoTarget THEN reply(s, "Usage")
            ELSE CASE command = "summon" ->
                        handleSummonCommand(enter(s, "summon"), u, m)
                   [] command = "freeze" ->
                        handleFreezeCommand(enter(s, "freeze"), u, m, targetId)
                   [] command = "unfreeze" ->
                        handleUnfreezeCommand(enter(s, "unfreeze"), u, m, targetId)
                   [] command = "k" ->
                        handleKickCommand(enter(s, "k"), u, m, targetId)
                   [] command = "b" ->
                        handleBanCommand(enter(s, "b"), u, m, targetId)
                   [] OTHER ->
                        handleMuteCommand(enter(s, "m"), u, m, targetId)
      [] OTHER -> s

\* routePublic that turns away only the commands listed for direct messages
routePublic_allowUnlisted(s, u, m, command, targetId, t) ==
    IF command \in dm_only
    THEN reply(s, "DmOnly")
    ELSE IF "roles" \in s.empty THEN throw(s)
    ELSE IF ~hasPermission(s, u, requiredRole(command))
    THEN reply(roleLookup(s), "InsufficientRole")
    ELSE switchPublic(roleLookup(s), u, m, command, targetId, t)

\* the scope check, the role check and the switch of chatCreate
routePublic(s, u, m, command, targetId, t) ==
    IF command \notin public_chat_only /\ command \notin dm_public_chat
    THEN reply(s, "DmOnly")
    ELSE IF "roles" \in s.empty THEN throw(s)
    ELSE IF ~hasPermission(s, u, requiredRole(command))
    THEN reply(roleLookup(s), "InsufficientRole")
    ELSE switchPublic(roleLookup(s), u, m, command, targetId, t)

\* chatCreate with the prefix check ahead of the emote keywords
chatAfterRegex_prefixFirst(s, u, m, t) ==
    IF ~startsWithPrefix(toLowerCase(m)) THEN s
    ELSE IF isEmoteName(m)
    THEN [handleEmoteLoopCommand(enter(s, "emoteLoop"), u, toLowerCase(m)[1].word)
              EXCEPT !.stopped = @ \ {u}]
    ELSE IF hasTargetArg(m)
    THEN suspend(s, u, [kind |-> "target", chan |-> "public", msg |-> m])
    ELSE routePublic(s, u, m, toLowerCase(m)[1].word, NoTarget, t)

\* chatCreate from the bare emote loop on: emote keyword, prefix, parse
chatAfterRegex(s, u, m, t) ==
    IF isEmoteName(m)
    THEN [handleEmoteLoopCommand(enter(s, "emoteLoop"), u, toLowerCase(m)[1].word)
              EXCEPT !.stopped = @ \ {u}]
    ELSE IF ~startsWithPrefix(toLowerCase(m)) THEN s
    ELSE IF hasTargetArg(m)
    THEN suspend(s, u, [kind |-> "target", chan |-> "public", msg |-> m])
    ELSE routePublic(s, u, m, toLowerCase(m)[1].word, NoTarget, t)

\* chatCreate with the bad word check after the two bare emote paths
chatCreate_emotesFirst(s, u, m, t) ==
    IF u = BotId THEN s
    ELSE IF "mutedMessages" \in s.empty THEN throw(s)
    ELSE IF isMuted(s, u, t) THEN isMutedSt(s, u, t)
    ELSE IF "bannedCommands" \in s.empty THEN throw(isMutedSt(s, u, t))
    ELSE IF isBanned(isMutedSt(s, u, t), u, t)
    THEN isBannedSt(isMutedSt(s, u, t), u, t)
    ELSE LET s2 == isBannedSt(isMutedSt(s, u, t), u, t) IN
         IF emoteRegex(toLowerCase(m)) /\ toLowerCase(m)[1].word \in EmoteNames
         THEN suspend(s2, u, [kind |-> "emoteAt", chan |-> "public", msg |-> m])
         ELSE IF isEmoteName(m) THEN chatAfterRegex(s2, u, m, t)
         ELSE IF "badWords" \in s2.empty THEN throw(s2)
         ELSE IF containsBadWord(s2, m) THEN reply(s2, "BadWordWarning")
         ELSE chatAfterRegex(s2, u, m, t)

\* chatCreate up to its first await
chatCreate(s, u, m, t) ==
    IF u = BotId THEN s
    ELSE IF "mutedMessages" \in s.empty THEN throw(s)
    ELSE IF isMuted(s, u, t) THEN isMutedSt(s, u, t)
    ELSE IF "bannedCommands" \in s.empty THEN throw(isMutedSt(s, u, t))
    ELSE IF isBanned(isMutedSt(s, u, t), u, t)
    THEN isBannedSt(isMutedSt(s, u, t), u, t)
    ELSE LET s2 == isBannedSt(isMutedSt(s, u, t), u, t) IN
         IF "badWords" \in s2.empty THEN throw(s2)
         ELSE IF containsBadWord(s2, m) THEN reply(s2, "BadWordWarning")
         ELSE IF emoteRegex(toLowerCase(m)) /\ toLowerCase(m)[1].word \in EmoteNames
         THEN suspend(s2, u, [kind |-> "emoteAt", chan |-> "public", msg |-> m])
         ELSE chatAfterRegex(s2, u, m, t)

\* handleSingleEmoteCommand that announces the emote in the chat
handleSingleEmoteCommand_announces(s, targetId, e) ==
    IF emoteDefinitions[e].id # NoId
    THEN reply(act(s, [kind |-> "emote", target |-> targetId,
                       emoteId |-> emoteDefinitions[e].id]), "Performing")
    ELSE s

\* handleSingleEmoteCommand(targetUserId, emoteName)
handleSingleEmoteCommand(s, targetId, e) ==
    IF emoteDefinitions[e].id # NoId
    THEN act(s, [kind |-> "emote", target |-> targetId,
                 emoteId |-> emoteDefinitions[e].id])
    ELSE s

\* chatCreate after the roster of the "<emote> @<user>" pattern answered
\* (found is the user found, NoTarget when none or when the request failed)
chatEmoteAt(s, u, m, found, t) ==
    IF found # NoTarget /\ "roles" \notin s.empty
    THEN IF hasPermission(s, u, "basic")
         THEN handleSingleEmoteCommand(enter(s, "singleEmote"), found,
                                       toLowerCase(m)[1].word)
         ELSE reply(s, "NoEmotePermission")
    ELSE chatAfterRegex(s, u, m, t)

\* chatCreate after bot.room.players.id(target) answered
chatTarget(s, u, m, targetId, failed, t) ==
    IF failed THEN reply(s, "LookupError")
    ELSE IF targetId = NoTarget THEN reply(s, "NotFound")
    ELSE routePublic(s, u, m, toLowerCase(m)[1].word, targetId, t)

-----------------------------------------------------------------------------
(* The messageCreate handler (direct messages) and the whisperCreate handler *)

\* switch (command) of messageCreate; arg is args[0], the word NoTarget when
\* missing
switchDm(s, u, command, targetId, arg) ==
    CASE command = "help" -> reply(enter(s, "help"), "Help")
      [] command = "mod" -> reply(enter(s, "mod"), "ModHelp")
      [] command = "emotelist" -> reply(enter(s, "emotelist"), "EmoteList")
      [] command = "list" -> reply(enter(s, "list"), "RoleList")
      [] command = "listbadword" ->
            IF "badWords" \in s.empty THEN throw(enter(s, "listbadword"))
            ELSE reply(enter(s, "listbadword"), "BadWordList")
      [] command = "addowner" ->
            IF targetId = NoTarget THEN reply(s, "Usage")
            ELSE handleAddOwnerCommand(enter(s, "addowner"), u, targetId)
      [] command = "removeowner" ->
            IF targetId = NoTarget THEN reply(s, "Usage")
            ELSE handleRemoveOwnerCommand(enter(s, "removeowner"), u, targetId)
      [] command = "bad" ->
            IF arg.word = NoTarget THEN reply(s, "Usage")
            ELSE handleBad(enter(s, "bad"), arg)
      [] command = "rbad" ->
            IF arg.word = NoTarget THEN reply(s, "Usage")
            ELSE handleRbad(enter(s, "rbad"), arg)
      [] OTHER -> reply(s, "UnknownCommand")

\* routeDm with the role check ahead of the scope check
routeDm_roleFirst(s, u, command, targetId, arg) ==
    IF ~hasPermission(s, u, requiredRole(command))
    THEN reply(roleLookup(s), "InsufficientRole")
    ELSE IF command \notin dm_only /\ command \notin dm_public_chat
    THEN reply(roleLookup(s), "PublicOnly")
    ELSE switchDm(roleLookup(s), u, command, targetId, arg)

\* the scope check, the role check and the switch of messageCreate
routeDm(s, u, command, targetId, arg) ==
    IF command \notin dm_only /\ command \notin dm_public_chat
    THEN reply(s, "PublicOnly")
    ELSE IF "roles" \in s.empty THEN throw(s)
    ELSE IF ~hasPermission(s, u, requiredRole(command))
    THEN reply(roleLookup(s), "InsufficientRole")
    ELSE switchDm(roleLookup(s), u, command, targetId, arg)

\* args[0] of a prefixed message, as typed
firstArg(m) ==
    IF Len(m) >= 2 THEN str(m[2].word, m[2].cased) ELSE str(NoTarget, FALSE)

\* messageCreate up to its first await, bot.room.players.username(userId)
messageCreate(s, u, m, t) ==
    IF u = BotId THEN s
    ELSE IF "mutedMessages" \in s.empty THEN throw(s)
    ELSE IF isMuted(s, u, t) THEN isMutedSt(s, u, t)
    ELSE IF "bannedCommands" \in s.empty THEN throw(isMutedSt(s, u, t))
    ELSE IF isBanned(isMutedSt(s, u, t), u, t)
    THEN isBannedSt(isMutedSt(s, u, t), u, t)
    ELSE suspend(isBannedSt(isMutedSt(s, u, t), u, t), u,
                 [kind |-> "username", chan |-> "dm", msg |-> m])

\* messageCreate after the username lookup answered, up to the target lookup
messageNamed(s, u, m) ==
    IF ~startsWithPrefix(m) /\ aiReplyInWhispers THEN reply(s, "AiReply")
    ELSE IF ~startsWithPrefix(m) THEN s
    ELSE IF hasTargetArg(m)
    THEN suspend(s, u, [kind |-> "target", chan |-> "dm", msg |-> m])
    ELSE routeDm(s, u, toLowerCase(m)[1].word, NoTarget, firstArg(m))

\* messageCreate after bot.room.players.id(target) answered
messageTarget(s, u, m, targetId, failed) ==
    IF failed THEN reply(s, "LookupError")
    ELSE IF targetId = NoTarget THEN reply(s, "NotFound")
    ELSE routeDm(s, u, toLowerCase(m)[1].word, targetId, firstArg(m))

whisperCreate(s, u, m, t) ==
    IF u = BotId THEN s
    ELSE IF "mutedMessages" \in s.empty THEN throw(s)
    ELSE IF isMuted(s, u, t) THEN isMutedSt(s, u, t)
    ELSE IF "bannedCommands" \in s.empty THEN throw(isMutedSt(s, u, t))
    ELSE IF isBanned(isMutedSt(s, u, t), u, t)
    THEN isBannedSt(isMutedSt(s, u, t), u, t)
    ELSE LET s2 == isBannedSt(isMutedSt(s, u, t), u, t) IN
         IF startsWithPrefix(m) THEN reply(s2, "PrefixInWhisper")
         ELSE IF aiReplyInWhispers THEN reply(s2, "AiReply")
         ELSE s2

-----------------------------------------------------------------------------
(* Actions *)

NoStep == [op |-> "init", u |-> "none", c |-> 0, msg |-> <<>>, replies |-> <<>>,
           acts |-> <<>>, roleChecks |-> 0, handler |-> "none", threw |-> FALSE]

\* a slot is left for the closure a loop request of u would create
LoopRoom(u) ==
    LiveChains(IF u \in DOMAIN emoteLoops
               THEN clearTimeout(chains[u], emoteLoops[u].timeoutId)
               ELSE chains[u]) # ChainIds

\* a public chat message m of sender u arrives
ChatCreate(u, m) ==
    /\ u \in present \cup {BotId}
    /\ u \notin DOMAIN awaiting
    /\ (u \in Users /\ isEmoteName(m)) => LoopRoom(u)
    /\ Commit(event("chatCreate", u, 0, m), chatCreate(Registries, u, m, now))
    /\ UNCHANGED <<present, now>>

\* the "Stopped previous emote loop" message of handleEmoteLoopCommand was
\* sent (ok) or its send was rejected, which ends the handler
LoopSendDone(u, ok) ==
    /\ u \in DOMAIN awaiting
    /\ awaiting[u].kind = "startLoop"
    /\ Commit(event("loopSendDone", u, 0, <<>>),
              IF ok
              THEN emoteLoopStart(enter(resume(Registries, u), "emoteLoop"), u,
                                  awaiting[u].emote)
              ELSE resume(Registries, u))
    /\ UNCHANGED <<present, now>>

\* the roster request of the "<emote> @<user>" pattern was answered or rejected
EmoteAtAnswer(u, ok) ==
    /\ u \in DOMAIN awaiting
    /\ awaiting[u].kind = "emoteAt"
    /\ LET m == awaiting[u].msg IN
       Commit(event("emoteAtAnswer", u, 0, m),
              chatEmoteAt(resume(Registries, u), u, m,
                          IF ok THEN rosterFind(toLowerCase(m)[2]) ELSE NoTarget,
                          now))
    /\ UNCHANGED <<present, now>>

\* the target lookup of a prefixed command was answered or rejected
TargetAnswer(u, ok) ==
    /\ u \in DOMAIN awaiting
    /\ awaiting[u].kind = "target"
    /\ awaiting[u].chan = "public"
    /\ LET m == awaiting[u].msg IN
       Commit(event(IF ok THEN "targetAnswer" ELSE "targetFailed", u, 0, m),
              chatTarget(resume(Registries, u), u, m, rosterId(m[2]), ~ok, now))
    /\ UNCHANGED <<present, now>>

\* a direct message m of sender u arrives
MessageCreate(u, m) ==
    /\ u \notin DOMAIN awaiting
    /\ Commit(event("messageCreate", u, 0, m), messageCreate(Registries, u, m, now))
    /\ UNCHANGED <<present, now>>

\* the username lookup of messageCreate was answered, or rejected, which ends
\* the handler
UsernameAnswer(u, ok) ==
    /\ u \in DOMAIN awaiting
    /\ awaiting[u].kind = "username"
    /\ LET m == awaiting[u].msg IN
       Commit(event(IF ok THEN "usernameAnswer" ELSE "usernameFailed", u, 0, m),
              IF ok THEN messageNamed(resume(Registries, u), u, m)
              ELSE resume(Registries, u))
    /\ UNCHANGED <<present, now>>

\* the target lookup of a prefixed direct message was answered or rejected
MessageTargetAnswer(u, ok) ==
    /\ u \in DOMAIN awaiting
    /\ awaiting[u].kind = "target"
    /\ awaiting[u].chan = "dm"
    /\ LET m == awaiting[u].msg IN
       Commit(event(IF ok THEN "messageTargetAnswer" ELSE "messageTargetFailed",
                    u, 0, m),
              messageTarget(resume(Registries, u), u, m, rosterId(m[2]), ~ok))
    /\ UNCHANGED <<present, now>>

\* a whisper m of sender u arrives
WhisperCreate(u, m) ==
    /\ u \in present \cup {BotId}
    /\ Commit(event("whisperCreate", u, 0, m), whisperCreate(Registries, u, m, now))
    /\ UNCHANGED <<present, now>>

\* the request a moderation handler of sender u awaits is answered (with
\* position p where it asked for one) or rejected; done tells whether the
\* action the handler then invokes resolves
HandlerAnswer(u, ok, p, done) ==
    /\ u \in DOMAIN awaiting
    /\ awaiting[u].kind \in HandlerKinds
    /\ Commit(event(IF ok THEN awaiting[u].kind ELSE "bridgeFailed", u, 0,
                    awaiting[u].msg),
              handlerResume(resume(Registries, u), u, awaiting[u], ok, p, done))
    /\ UNCHANGED <<present, now>>

\* a movement event of user u to newPosition; lastKnownPos is what the cache
\* of the Event Bridge holds for u
PlayerMove(u, newPosition, lastKnownPos) ==
    /\ u \in present \cup {BotId}
    /\ Commit(event("playerMove", u, 0, <<>>),
              playerMove(Registries, u, newPosition, lastKnownPos, correctionEnabled))
    /\ UNCHANGED <<present, now>>

\* a minute passes
Advance ==
    /\ now < MaxTime
    /\ now' = now + 1
    /\ step' = [NoStep EXCEPT !.op = "advance"]
    /\ UNCHANGED <<present, permissions, bannedUsers, mutedUsers, badWords,
                   frozenUsers, emoteLoops, chains, awaiting, userLastSeen,
                   botLastSetLocation, emptyDocs, store, correctionEnabled,
                   autoGreeting, joining, stopped>>

\* the timer of a performEmote closure fires: performEmote runs to its first await
TimerFire(u, c) ==
    /\ chains[u][c].pc = "timer"
    /\ Commit(event("timerFire", u, c, <<>>),
              [Registries EXCEPT !.chains[u][c].pc = "roster"])
    /\ UNCHANGED <<present, now>>

\* the roster request of a tick is answered
RosterAnswer(u, c) ==
    /\ chains[u][c].pc = "roster"
    /\ IF u \in present
       THEN Commit(event("tickPresent", u, c, <<>>), performEmoteInvoke(Registries, u, c))
       ELSE Commit(event("tickAbsent", u, c, <<>>), performEmoteAbsent(Registries, u, c))
    /\ UNCHANGED <<present, now>>

\* the roster request of a tick is rejected
RosterReject(u, c) ==
    /\ chains[u][c].pc = "roster"
    /\ Commit(event("tickLookupFailed", u, c, <<>>),
              performEmoteLookupFailed(Registries, u, c))
    /\ UNCHANGED <<present, now>>

\* the emote action of a tick resolves
EmoteResolve(u, c) ==
    /\ chains[u][c].pc = "emote"
    /\ Commit(event("tickReschedule", u, c, <<>>),
              performEmoteReschedule(Registries, u, c))
    /\ UNCHANGED <<present, now>>

\* the emote action of a tick is rejected
EmoteReject(u, c) ==
    /\ chains[u][c].pc = "emote"
    /\ Commit(event("tickEmoteFailed", u, c, <<>>),
              performEmoteFailed(Registries, u, c))
    /\ UNCHANGED <<present, now>>

PlayerLeave(u) ==
    /\ u \in present
    /\ present' = present \ {u}
    /\ Commit(event("playerLeave", u, 0, <<>>), playerLeave(Registries, u))
    /\ UNCHANGED now

PlayerJoin(u) ==
    /\ u \notin present
    /\ present' = present \cup {u}
    /\ autoGreeting => Len(joining[u]) < MaxJoins
    /\ Commit(event("playerJoin", u, 0, <<>>),
              playerJoin(Registries, u, now, autoGreeting))
    /\ UNCHANGED now

\* the greeting of a playerJoin handler of u was sent, or its send rejected
GreetingSent(u, i, ok) ==
    /\ i \in 1..Len(joining[u])
    /\ Commit(event(IF ok THEN "greetingSent" ELSE "greetingFailed", u, 0, <<>>),
              greetingSent(Registries, u, i, ok))
    /\ UNCHANGED <<present, now>>

-----------------------------------------------------------------------------
(* The emote loops: loop requests, stops, leaves, joins and ticks *)

\* the user whose loop requests, stops, leaves and ticks this specification runs
LoopUsers == {"u1"}

LoopMessages == {<<tok("", e)>> : e \in EmoteNames} \cup {<<tok("!", "stop")>>}

InitLoop ==
    /\ present = Users
    /\ now = 0
    /\ permissions = [owners |-> {}, mods |-> {}]
    /\ bannedUsers = EmptyMap
    /\ mutedUsers = EmptyMap
    /\ badWords = <<>>
    /\ frozenUsers = EmptyMap
    /\ emoteLoops = EmptyMap
    /\ chains = [u \in Users |-> [c \in ChainIds |-> DeadChain]]
    /\ awaiting = EmptyMap
    /\ userLastSeen = EmptyMap
    /\ botLastSetLocation = defaultBotLocation
    /\ emptyDocs = {}
    /\ store = Store(FALSE, {})
    /\ correctionEnabled = TRUE
    /\ autoGreeting = FALSE
    /\ joining = [u \in Users |-> <<>>]
    /\ stopped = {}
    /\ step = NoStep

NextLoop ==
    \/ \E u \in LoopUsers, m \in LoopMessages : ChatCreate(u, m)
    \/ \E u \in LoopUsers, ok \in BOOLEAN : LoopSendDone(u, ok)
    \/ \E u \in LoopUsers, c \in ChainIds : TimerFire(u, c)
    \/ \E u \in LoopUsers, c \in ChainIds : RosterAnswer(u, c)
    \/ \E u \in LoopUsers, c \in ChainIds : RosterReject(u, c)
    \/ \E u \in LoopUsers, c \in ChainIds : EmoteResolve(u, c)
    \/ \E u \in LoopUsers, c \in ChainIds : EmoteReject(u, c)
    \/ \E u \in LoopUsers : PlayerLeave(u)
    \/ \E u \in LoopUsers : PlayerJoin(u)

LoopSpec == InitLoop /\ [][NextLoop]_vars

\* timers fire and pending Event Bridge requests are answered or rejected
FairLoopSpec ==
    /\ LoopSpec
    /\ \A u \in LoopUsers : WF_vars(\E ok \in BOOLEAN : LoopSendDone(u, ok))
    /\ \A u \in LoopUsers, c \in ChainIds :
          /\ WF_vars(TimerFire(u, c))
          /\ WF_vars(RosterAnswer(u, c) \/ RosterReject(u, c))
          /\ WF_vars(EmoteResolve(u, c) \/ EmoteReject(u, c))

\* the live emote-loop tasks of u: pending timers and ticks in flight
LiveTasks(u) == LiveChains(chains[u])

\* C1: every user has at most one live emote-loop task (a pending timer or
\* a tick in flight) after any interleaving of loop requests, stops, leaves
\* and ticks.
C1_AtMostOneTask == \A u \in Users : Cardinality(LiveTasks(u)) <= 1

\* C2: once a stop command of user X has been processed, and until X asks
\* for a new loop, X has no registry entry and no tick of X invokes the
\* emote action.
C2_StopDestroysLoop ==
    \A u \in Users :
        u \in stopped =>
            /\ u \notin DOMAIN emoteLoops
            /\ ~(step.op = "tickPresent" /\ step.u = u)

\* C3: if X leaves and stays away, then under fair scheduling of timers and
\* of ticks in flight X eventually has, for good, no registry entry and no
\* live task.
C3_LeaveEndsLoop ==
    \A u \in LoopUsers :
        <>[](u \notin present) =>
            <>[](u \notin DOMAIN emoteLoops /\ LiveTasks(u) = {})

\* C4: a tick that finds the user absent from the roster, and a tick whose
\* emote action is rejected, invoke no emote action, do not reschedule (the
\* closure ends) and leave no registry entry for the user.
C4_FailedTickEnds ==
    \A u \in Users, c \in ChainIds :
        (step.op \in {"tickAbsent", "tickEmoteFailed"} /\ step.u = u /\ step.c = c) =>
            /\ u \notin DOMAIN emoteLoops
            /\ chains[u][c].pc = "dead"
            /\ step.acts = <<>>

\* C4 witness: the emote action of a tick was rejected while the user had a
\* registry entry, which the tick removed.
C4_Witness ==
    /\ step.op = "tickEmoteFailed"
    /\ step.replies = <<"LoopError">>
    /\ step.u \notin DOMAIN emoteLoops

\* C5: the stop command of X reports that no loop is active, and changes
\* nothing, exactly when X has no live task; when X has one, stop cancels it
\* and reports it stopped.
C5_StopReportsTasks ==
    [][\A u \in Users :
          (step'.handler = "stop" /\ step'.u = u) =>
              /\ LiveTasks(u) = {} =>
                    /\ step'.replies = <<"NoActiveLoop">>
                    /\ emoteLoops' = emoteLoops
                    /\ chains' = chains
              /\ LiveTasks(u) # {} =>
                    /\ step'.replies = <<"LoopStopped">>
                    /\ LiveChains(chains'[u]) = {}]_vars

-----------------------------------------------------------------------------
(* The moderation ledger: idban, idunban, idmute, idunmute, the passage of   *)
(* time, and messages of every sender in the three channels                 *)

\* duration_minutes of the timed ban found in the loaded document
LoadedBanMinutes == 2

\* a timed ban as the bannedCommands document may hold it at startup
LoadedBan == [timestamp |-> 0, duration_minutes |-> LoadedBanMinutes]

\* the moderation commands, sent in public chat by the owner u1
LedgerCommands ==
    {<<tok("!", c), tok("@", "u2")>> : c \in {"idmute", "idunmute", "idban", "idunban"}}

\* what every sender, the bot included, sends in public chat
LedgerChat == {<<tok("!", "myid")>>}

\* what every sender sends as a direct message and as a whisper
LedgerDm == {<<tok("", "hello")>>}

LedgerWhisper == {<<tok("", "hello")>>}

InitLedger ==
    /\ present = Users
    /\ now = 0
    /\ permissions = [owners |-> {"u1"}, mods |-> {}]
    /\ bannedUsers \in {EmptyMap, [u \in {"u2"} |-> LoadedBan]}
    /\ mutedUsers = EmptyMap
    /\ badWords = <<>>
    /\ frozenUsers = EmptyMap
    /\ emoteLoops = EmptyMap
    /\ chains = [u \in Users |-> [c \in ChainIds |-> DeadChain]]
    /\ awaiting = EmptyMap
    /\ userLastSeen = EmptyMap
    /\ botLastSetLocation = defaultBotLocation
    /\ emptyDocs = {}
    /\ store = Store(FALSE, {})
    /\ correctionEnabled = TRUE
    /\ autoGreeting = FALSE
    /\ joining = [u \in Users |-> <<>>]
    /\ stopped = {}
    /\ step = NoStep

NextLedger ==
    \/ \E m \in LedgerCommands : ChatCreate("u1", m)
    \/ \E u \in Senders, m \in LedgerChat : ChatCreate(u, m)
    \/ \E ok \in BOOLEAN : TargetAnswer("u1", ok)
    \/ \E u \in Senders, m \in LedgerDm : MessageCreate(u, m)
    \/ \E u \in Users, ok \in BOOLEAN : UsernameAnswer(u, ok)
    \/ \E u \in Senders, m \in LedgerWhisper : WhisperCreate(u, m)
    \/ Advance

LedgerSpec == InitLedger /\ [][NextLedger]_vars

-----------------------------------------------------------------------------
(* Authorization: prefixed commands of senders of every role in public chat *)
(* and by direct message, in and out of the channel of the command          *)

AuthChat ==
    {<<tok("!", c), tok("@", "u2")>> : c \in {"role", "unrole", "idban", "addowner"}}
    \cup {<<tok("!", "list")>>, <<tok("!", "mod")>>, <<tok("!", "myid")>>}

AuthDm ==
    {<<tok("!", "addowner"), tok("@", "u2")>>, <<tok("!", "removeowner"), tok("@", "u1")>>,
     <<tok("!", "idban"), tok("@", "u2")>>}
    \cup {<<tok("!", "list")>>, <<tok("!", "mod")>>, <<tok("!", "myid")>>}

InitAuth ==
    /\ present = Users
    /\ now = 0
    /\ permissions = [owners |-> {"u1"}, mods |-> {}]
    /\ bannedUsers = EmptyMap
    /\ mutedUsers = EmptyMap
    /\ badWords = <<>>
    /\ frozenUsers = EmptyMap
    /\ emoteLoops = EmptyMap
    /\ chains = [u \in Users |-> [c \in ChainIds |-> DeadChain]]
    /\ awaiting = EmptyMap
    /\ userLastSeen = EmptyMap
    /\ botLastSetLocation = defaultBotLocation
    /\ emptyDocs = {}
    /\ store = Store(FALSE, {})
    /\ correctionEnabled = TRUE
    /\ autoGreeting = FALSE
    /\ joining = [u \in Users |-> <<>>]
    /\ stopped = {}
    /\ step = NoStep

NextAuth ==
    \/ \E u \in Users, m \in AuthChat : ChatCreate(u, m)
    \/ \E u \in Users, ok \in BOOLEAN : TargetAnswer(u, ok)
    \/ \E u \in Users, m \in AuthDm : MessageCreate(u, m)
    \/ \E u \in Users, ok \in BOOLEAN : UsernameAnswer(u, ok)
    \/ \E u \in Users, ok \in BOOLEAN : MessageTargetAnswer(u, ok)

AuthSpec == InitAuth /\ [][NextAuth]_vars

\* the sender has a mute record that has not run out
UnexpiredMute(u) ==
    /\ u \in DOMAIN mutedUsers
    /\ now - mutedUsers[u].timestamp <= mutedUsers[u].duration_minutes

\* the sender has a ban record that is permanent or has not run out
UnexpiredBan(u) ==
    /\ u \in DOMAIN bannedUsers
    /\ \/ bannedUsers[u].duration_minutes \in {null, 0}
       \/ now - bannedUsers[u].timestamp <= bannedUsers[u].duration_minutes

\* the step about to be taken routes a prefixed command of sender u in
\* channel chan: the handler got past the sender, bad word and username
\* stages, and the target of the message, if it names one, was looked up
\* and found
Routes(u, chan) ==
    LET m == step'.msg IN
    /\ step'.u = u
    /\ m # <<>>
    /\ startsWithPrefix(m)
    /\ \/ /\ chan = "public"
          /\ step'.op = "chatCreate"
          /\ ~hasTargetArg(m)
          /\ ~UnexpiredMute(u) /\ ~UnexpiredBan(u)
          /\ ~containsBadWord(Registries, m)
       \/ /\ chan = "dm"
          /\ step'.op = "usernameAnswer"
          /\ ~hasTargetArg(m)
       \/ /\ step'.op = IF chan = "public" THEN "targetAnswer" ELSE "messageTargetAnswer"
          /\ rosterId(m[2]) # NoTarget

\* the command word of the message of the step about to be taken
Command == step'.msg[1].word

\* C9: a dm_only command routed in public chat is answered with the
\* "only in DM" reply, and a public_chat_only command routed by direct
\* message with the "only in public chat" reply, whatever the role of the
\* sender: no role lookup is made, no handler runs and the reply is never
\* the missing-permission reply.
C9_ChannelBeforeRole ==
    [][\A u \in Users :
          /\ (Routes(u, "public") /\ Command \in dm_only) =>
                /\ step'.replies = <<"DmOnly">>
                /\ step'.roleChecks = 0
                /\ step'.handler = "none"
          /\ (Routes(u, "dm") /\ Command \in public_chat_only) =>
                /\ step'.replies = <<"PublicOnly">>
                /\ step'.roleChecks = 0
                /\ step'.handler = "none"]_vars

\* C9 witness: u2, who has no role, sent the mod command "!idban @u2" by
\* direct message and was told that the command works only in public chat,
\* with no role lookup made.
C9_Witness ==
    /\ step.op = "messageTargetAnswer"
    /\ step.u = "u2"
    /\ step.msg[1].word = "idban"
    /\ "u2" \notin permissions.owners \cup permissions.mods
    /\ step.replies = <<"PublicOnly">>
    /\ step.roleChecks = 0

\* the rank of a role and of a user in basic < mod < owner
RoleRank(r) == CASE r = "owner" -> 2 [] r = "mod" -> 1 [] OTHER -> 0

UserRank(u) ==
    IF u \in permissions.owners THEN 2 ELSE IF u \in permissions.mods THEN 1 ELSE 0

\* the rank a command needs: owner if the owner list names it, else mod if
\* the mod list names it, else basic
NeededRank(command) ==
    IF command \in commandPermissions.owner THEN 2
    ELSE IF command \in commandPermissions.mod THEN 1
    ELSE 0

\* the command is allowed in the channel
InChannel(command, chan) ==
    \/ command \in dm_public_chat
    \/ chan = "public" /\ command \in public_chat_only
    \/ chan = "dm" /\ command \in dm_only

\* C10: hasPermission(u, r) holds exactly when the role of u is at least r
\* in basic < mod < owner; a prefixed command routed in its channel reaches
\* its handler only if the sender, when the check is made, has at least the
\* rank the permission lists give the command (owner when both lists name
\* it); otherwise the sender gets the missing-permission reply, no handler
\* runs and no registry changes.
C10_RoleGate ==
    [][/\ \A u \in Senders, r \in {"basic", "mod", "owner"} :
             hasPermission(Registries, u, r) <=> UserRank(u) >= RoleRank(r)
       /\ \A u \in Users, chan \in {"public", "dm"} :
             (Routes(u, chan) /\ InChannel(Command, chan)) =>
                IF UserRank(u) >= NeededRank(Command)
                THEN "InsufficientRole" \notin {step'.replies[i] : i \in DOMAIN step'.replies}
                ELSE /\ step'.replies = <<"InsufficientRole">>
                     /\ step'.handler = "none"
                     /\ UNCHANGED <<permissions, bannedUsers, mutedUsers, badWords,
                                    frozenUsers, emoteLoops, chains>>
       /\ \A u \in Users :
             (step'.u = u /\ step'.handler \in commandPermissions.mod \cup commandPermissions.owner) =>
                UserRank(u) >= NeededRank(step'.handler)]_vars

\* C10 witness: u2, a mod, sent "!list", which both permission lists name,
\* by direct message and got the missing-permission reply.
C10_Witness ==
    /\ step.op = "usernameAnswer"
    /\ step.u = "u2"
    /\ step.msg[1].word = "list"
    /\ "u2" \in permissions.mods
    /\ step.replies = <<"InsufficientRole">>
    /\ step.handler = "none"

\* a timed record r has run out: strictly past its last minute, or (when
\* atBoundary) from that minute on
RecordLapsed(r, atBoundary) ==
    IF atBoundary THEN r.timestamp + r.duration_minutes <= now
    ELSE r.timestamp + r.duration_minutes < now

\* what isMuted / isBanned do at the current time with the timed records of
\* the ledger: a lapsed record is reported false and removed, any other is
\* reported true and kept
ExpiryContract(atBoundary) ==
    \A u \in Users :
        /\ u \in DOMAIN mutedUsers =>
              IF RecordLapsed(mutedUsers[u], atBoundary)
              THEN /\ ~isMuted(Registries, u, now)
                   /\ u \notin DOMAIN isMutedSt(Registries, u, now).mute
              ELSE /\ isMuted(Registries, u, now)
                   /\ isMutedSt(Registries, u, now).mute = mutedUsers
        /\ (u \in DOMAIN bannedUsers /\ bannedUsers[u].duration_minutes \notin {null, 0}) =>
              IF RecordLapsed(bannedUsers[u], atBoundary)
              THEN /\ ~isBanned(Registries, u, now)
                   /\ u \notin DOMAIN isBannedSt(Registries, u, now).ban
              ELSE /\ isBanned(Registries, u, now)
                   /\ isBannedSt(Registries, u, now).ban = bannedUsers

\* C6 (as stated): a timed ban or mute record with issued_at +
\* duration_minutes <= now, the boundary included, is reported false by
\* isBanned / isMuted and removed by the call; a record with issued_at +
\* duration_minutes > now is reported true and kept.
C6_BoundaryExpired == ExpiryContract(TRUE)

\* C6 (amended): a timed ban or mute record with issued_at +
\* duration_minutes < now is reported false by isBanned / isMuted and removed
\* by the call; a record with issued_at + duration_minutes >= now, the
\* boundary included, is reported true and kept.
C6_LazyExpiry == ExpiryContract(FALSE)

\* C6 witness: at the boundary minute of her mute, u2 sent a public message
\* that was ignored, and the mute record is still in the ledger.
C6_Witness ==
    /\ step.op = "chatCreate"
    /\ step.u = "u2"
    /\ step.replies = <<>>
    /\ "u2" \in DOMAIN mutedUsers
    /\ mutedUsers["u2"].timestamp + mutedUsers["u2"].duration_minutes = now

\* C7: a permanent ban (duration_minutes null) is reported true by isBanned
\* at every time, the check does not remove it, and it stays in the ledger
\* across every step but a processed unban.
C7_PermanentBanStays ==
    [][\A u \in Users :
          (u \in DOMAIN bannedUsers /\ bannedUsers[u].duration_minutes = null) =>
              /\ isBanned(Registries, u, now)
              /\ isBannedSt(Registries, u, now).ban = bannedUsers
              /\ \/ u \in DOMAIN bannedUsers' /\ bannedUsers'[u] = bannedUsers[u]
                 \/ /\ step'.handler = "idunban"
                    /\ step'.replies = <<"Unbanned">>
                    /\ u \notin DOMAIN bannedUsers']_vars

\* C7 witness: at the last minute of the clock u2, banned by idban, sent a
\* direct message that was ignored, and the ban is still in the ledger.
C7_Witness ==
    /\ step.op = "messageCreate"
    /\ step.u = "u2"
    /\ step.replies = <<>>
    /\ "u2" \notin DOMAIN awaiting
    /\ now = MaxTime
    /\ "u2" \in DOMAIN bannedUsers
    /\ bannedUsers["u2"] = PermanentBan

\* a message of an ignored sender: nothing is sent, invoked or dispatched and
\* no registry but the mute ledger changes; the mute ledger changes as
\* muteChange(u) allows
IgnoredContract(muteChange(_)) ==
    \A u \in Senders :
        (/\ step'.op \in {"chatCreate", "messageCreate", "whisperCreate"}
         /\ step'.u = u
         /\ (u = BotId \/ UnexpiredMute(u) \/ UnexpiredBan(u))) =>
            /\ step'.replies = <<>>
            /\ step'.acts = <<>>
            /\ step'.handler = "none"
            /\ step'.roleChecks = 0
            /\ UNCHANGED <<permissions, bannedUsers, badWords, frozenUsers,
                           emoteLoops, chains, awaiting>>
            /\ muteChange(u)

MuteLedgerKept(u) == mutedUsers' = mutedUsers

\* the mute ledger is kept, or loses the sender's own record that had run out
MuteLedgerKeptOrLapsed(u) ==
    \/ mutedUsers' = mutedUsers
    \/ /\ u \in DOMAIN mutedUsers
       /\ now - mutedUsers[u].timestamp > mutedUsers[u].duration_minutes
       /\ mutedUsers' = mapDelete(mutedUsers, u)

\* C8 (as stated): a message, in any channel, of the bot or of a sender with
\* an unexpired mute or ban record causes no reply, no Event Bridge action,
\* no dispatch, and no change to roles, ledger, bad words, frozen map or
\* loop registry.
C8_IgnoredNoChange == [][IgnoredContract(MuteLedgerKept)]_vars

\* C8 (amended): a message, in any channel, of the bot or of a sender with
\* an unexpired mute or ban record causes no reply, no Event Bridge action,
\* no dispatch, and no change to roles, ban ledger, bad words, frozen map or
\* loop registry; the mute ledger changes at most by losing the sender's own
\* record that had already run out.
C8_IgnoredSender == [][IgnoredContract(MuteLedgerKeptOrLapsed)]_vars

\* C8 witness: banned u2 sent a whisper after the minutes of a mute had
\* passed; it was ignored and u2 has no mute record.
C8_Witness ==
    /\ step.op = "whisperCreate"
    /\ step.u = "u2"
    /\ step.replies = <<>>
    /\ "u2" \in DOMAIN bannedUsers
    /\ "u2" \notin DOMAIN mutedUsers
    /\ now > MuteMinutes

\* the ban ledger is kept, or loses the record of u that had run out
BanLedgerKeptOrLapsed(u) ==
    \/ bannedUsers' = bannedUsers
    \/ /\ u \in DOMAIN bannedUsers
       /\ ~UnexpiredBan(u)
       /\ bannedUsers' = mapDelete(bannedUsers, u)

\* the step about to be taken is the handler of command c of the owner u1,
\* resumed with the target of the message found in the room
IdCommandRuns(c) ==
    /\ step'.op = "targetAnswer"
    /\ step'.u = "u1"
    /\ step'.msg[1].word = c

\* what a repeated moderation command leaves alone: an idmute of a target
\* with an unexpired mute and an idban of a banned target keep both ledgers
\* and answer that nothing was done; an idunban / idunmute of a target
\* without an active record answers that there is none, with the ledger of
\* the command as banKept / muteKept say
RepeatContract(banKept(_), muteKept(_)) ==
    LET target == rosterId(step'.msg[2]) IN
    /\ (IdCommandRuns("idmute") /\ UnexpiredMute(target)) =>
          /\ step'.replies = <<"AlreadyMuted">>
          /\ mutedUsers' = mutedUsers
          /\ bannedUsers' = bannedUsers
    /\ (IdCommandRuns("idban") /\ UnexpiredBan(target)) =>
          /\ step'.replies = <<"AlreadyBanned">>
          /\ bannedUsers' = bannedUsers
          /\ mutedUsers' = mutedUsers
    /\ (IdCommandRuns("idunban") /\ ~UnexpiredBan(target)) =>
          /\ step'.replies = <<"NotBanned">>
          /\ banKept(target)
          /\ mutedUsers' = mutedUsers
    /\ (IdCommandRuns("idunmute") /\ ~UnexpiredMute(target)) =>
          /\ step'.replies = <<"NotMuted">>
          /\ muteKept(target)
          /\ bannedUsers' = bannedUsers
    /\ (\E c \in {"idmute", "idban", "idunban", "idunmute"} : IdCommandRuns(c)) =>
          UNCHANGED <<permissions, badWords, frozenUsers, emoteLoops>>

BanLedgerKept(u) == bannedUsers' = bannedUsers

\* C38 (as stated): idmute against a user whose mute has not expired leaves
\* the mute record unchanged, idban against a banned user leaves the ban
\* record unchanged, and idunban / idunmute on a user with no active record
\* changes nothing.
C38_RepeatChangesNothing == [][RepeatContract(BanLedgerKept, MuteLedgerKept)]_vars

\* C38 (amended): idmute against a user whose mute has not expired and idban
\* against a banned user leave both ledgers unchanged; idunban / idunmute on
\* a user with no active record changes nothing but the removal of the
\* record of that user that had already run out.
C38_RepeatIdempotent ==
    [][RepeatContract(BanLedgerKeptOrLapsed, MuteLedgerKeptOrLapsed)]_vars

\* C38 witness: u2 was muted at an earlier minute, a second idmute was
\* answered with "already muted", and the record still carries the first
\* issue time.
C38_Witness ==
    /\ step.op = "targetAnswer"
    /\ step.msg[1].word = "idmute"
    /\ step.replies = <<"AlreadyMuted">>
    /\ "u2" \in DOMAIN mutedUsers
    /\ mutedUsers["u2"].timestamp < now

-----------------------------------------------------------------------------
(* Room moderation: the owner u1 bans, mutes, kicks, freezes and summons    *)
(* u2 and herself, and promotes and demotes u2                              *)

\* the pose the Event Bridge reports for a user who stands still
RestPose == pos(0, 0, 0, "front")

\* what bot.room.players.position answers
AnswerPositions == {RestPose, NoPosition}

GuardCommands ==
    {<<tok("!", c), tok("@", x)>> :
        c \in {"idban", "idmute", "b", "m", "k", "freeze", "summon"},
        x \in Users}
    \cup {<<tok("!", c), tok("@", "u2")>> : c \in {"role", "unrole"}}

InitGuard ==
    /\ present = Users
    /\ now = 0
    /\ permissions = [owners |-> {"u1"}, mods |-> {}]
    /\ bannedUsers = EmptyMap
    /\ mutedUsers = EmptyMap
    /\ badWords = <<>>
    /\ frozenUsers = EmptyMap
    /\ emoteLoops = EmptyMap
    /\ chains = [u \in Users |-> [c \in ChainIds |-> DeadChain]]
    /\ awaiting = EmptyMap
    /\ userLastSeen = EmptyMap
    /\ botLastSetLocation = defaultBotLocation
    /\ emptyDocs = {}
    /\ store = Store(FALSE, {})
    /\ correctionEnabled = TRUE
    /\ autoGreeting = FALSE
    /\ joining = [u \in Users |-> <<>>]
    /\ stopped = {}
    /\ step = NoStep

NextGuard ==
    \/ \E m \in GuardCommands : ChatCreate("u1", m)
    \/ \E ok \in BOOLEAN : TargetAnswer("u1", ok)
    \/ \E ok \in BOOLEAN, p \in AnswerPositions, done \in BOOLEAN :
          HandlerAnswer("u1", ok, p, done)

GuardSpec == InitGuard /\ [][NextGuard]_vars

\* the command word and the @target of the message the step about to be
\* taken serves
StepCommand == step'.msg[1].word

StepTarget == step'.msg[2].word

\* the step about to be taken is the one in which the handler of a ban,
\* mute, kick, freeze or summon command of sender u looks at the role of
\* its target x
ChecksTarget(u, x) ==
    /\ step'.u = u
    /\ \/ /\ step'.op = "targetAnswer"
          /\ StepCommand \in {"idban", "idmute"}
          /\ rosterId(step'.msg[2]) = x
       \/ /\ step'.op \in {"freezeName", "kickName", "banName", "muteName"}
          /\ awaiting[u].target = x
       \/ /\ step'.op = "summonId"
          /\ rosterId(step'.msg[2]) = x

\* C11: when the handler of idban, idmute, b, m, k, freeze or summon looks at
\* a target that holds the mod or owner role, the command is rejected with a
\* reply and the handler ends: the ban ledger, the mute ledger and the frozen
\* map are left as they are and no action is issued against the target.
C11_ProtectedTarget ==
    [][\A u \in Users, x \in Users :
          (ChecksTarget(u, x) /\ x \in permissions.owners \cup permissions.mods) =>
              /\ step'.replies # <<>>
              /\ step'.acts = <<>>
              /\ u \notin DOMAIN awaiting'
              /\ UNCHANGED <<bannedUsers, mutedUsers, frozenUsers>>]_vars

\* C11 witness: the owner asked to freeze u2, a mod, and was refused; u2 is
\* not in the frozen map.
C11_Witness ==
    /\ step.op = "freezeName"
    /\ step.msg[2].word = "u2"
    /\ "u2" \in permissions.mods
    /\ step.replies = <<"CannotFreezeProtected">>
    /\ "u2" \notin DOMAIN frozenUsers

\* C35: no user who holds the mod or owner role is in the frozen map, the
\* ban ledger or the mute ledger.
C35_ProtectedNeverRestricted ==
    \A u \in permissions.owners \cup permissions.mods :
        /\ u \notin DOMAIN frozenUsers
        /\ u \notin DOMAIN bannedUsers
        /\ u \notin DOMAIN mutedUsers

-----------------------------------------------------------------------------
(* Role changes: role and unrole in public chat, addowner and removeowner   *)
(* by direct message, from every sender about every user, from every        *)
(* disjoint pair of an owner set and a mod set                              *)

RoleChat == {<<tok("!", c), tok("@", x)>> : c \in {"role", "unrole"}, x \in Users}

RoleDm == {<<tok("!", c), tok("@", x)>> : c \in {"addowner", "removeowner"}, x \in Users}

InitRole ==
    /\ present = Users
    /\ now = 0
    /\ permissions \in {[owners |-> o, mods |-> d] :
                           o \in SUBSET Users, d \in SUBSET Users}
    /\ permissions.owners \cap permissions.mods = {}
    /\ bannedUsers = EmptyMap
    /\ mutedUsers = EmptyMap
    /\ badWords = <<>>
    /\ frozenUsers = EmptyMap
    /\ emoteLoops = EmptyMap
    /\ chains = [u \in Users |-> [c \in ChainIds |-> DeadChain]]
    /\ awaiting = EmptyMap
    /\ userLastSeen = EmptyMap
    /\ botLastSetLocation = defaultBotLocation
    /\ emptyDocs = {}
    /\ store = Store(FALSE, {})
    /\ correctionEnabled = TRUE
    /\ autoGreeting = FALSE
    /\ joining = [u \in Users |-> <<>>]
    /\ stopped = {}
    /\ step = NoStep

NextRole ==
    \/ \E u \in Users, m \in RoleChat : ChatCreate(u, m)
    \/ \E u \in Users, ok \in BOOLEAN : TargetAnswer(u, ok)
    \/ \E u \in Users, m \in RoleDm : MessageCreate(u, m)
    \/ \E u \in Users, ok \in BOOLEAN : UsernameAnswer(u, ok)
    \/ \E u \in Users, ok \in BOOLEAN : MessageTargetAnswer(u, ok)

RoleSpec == InitRole /\ [][NextRole]_vars

\* the step about to be taken routes the direct-message command c of sender
\* u with the target x looked up and found
DmCommandOn(u, c, x) ==
    /\ step'.op = "messageTargetAnswer"
    /\ step'.u = u
    /\ StepCommand = c
    /\ rosterId(step'.msg[2]) = x

\* C12: addowner for X, issued by an owner while X is in the mod set and not
\* in the owner set, leaves X in the owner set and out of the mod set and
\* the membership of every other user in both sets as it was.
C12_GrantOwnerMovesMod ==
    [][\A u \in Users, x \in Users :
          (/\ DmCommandOn(u, "addowner", x)
           /\ u \in permissions.owners
           /\ x \in permissions.mods \ permissions.owners) =>
              /\ permissions'.owners = permissions.owners \cup {x}
              /\ permissions'.mods = permissions.mods \ {x}]_vars

\* C12 witness: addowner for u2 was carried out and u2 is an owner and not a
\* mod.
C12_Witness ==
    /\ step.op = "messageTargetAnswer"
    /\ step.msg[1].word = "addowner"
    /\ step.msg[2].word = "u2"
    /\ step.replies = <<"OwnerAssigned">>
    /\ "u2" \in permissions.owners
    /\ "u2" \notin permissions.mods

\* C13: from disjoint owner and mod sets, the two sets stay disjoint through
\* every interleaving of role, unrole, addowner and removeowner, and getRole
\* answers basic exactly for the users in neither set.
C13_RolesDisjoint ==
    /\ permissions.owners \cap permissions.mods = {}
    /\ \A u \in Senders :
          getRole(Registries, u) = "basic" <=>
              u \notin permissions.owners \cup permissions.mods

\* C13 witness: the role command of the owner u2 made u1 a mod; u2 is the
\* only owner and u1 the only mod.
C13_Witness ==
    /\ step.op = "targetAnswer"
    /\ step.msg[1].word = "role"
    /\ step.msg[2].word = "u1"
    /\ step.replies = <<"RoleAssigned">>
    /\ permissions = [owners |-> {"u2"}, mods |-> {"u1"}]

\* C14: removeowner whose target is the sender is refused whatever the role
\* of the sender, and the owner set and the mod set are left as they were.
C14_NoSelfRevoke ==
    [][\A u \in Users :
          DmCommandOn(u, "removeowner", u) =>
              /\ permissions' = permissions
              /\ step'.replies \in {<<"MustBeOwnerNotSelf">>, <<"InsufficientRole">>}]_vars

\* C14 witness: the owner u1 asked to remove herself and was refused by the
\* handler; she still is an owner.
C14_Witness ==
    /\ step.op = "messageTargetAnswer"
    /\ step.u = "u1"
    /\ step.msg[1].word = "removeowner"
    /\ step.msg[2].word = "u1"
    /\ step.replies = <<"MustBeOwnerNotSelf">>
    /\ "u1" \in permissions.owners

\* C33: an owner set that is not empty stays not empty; it only loses a
\* member in a removeowner step whose sender is an owner before and after the
\* step and is not the member removed.
C33_OwnersNeverEmpty ==
    [][/\ permissions.owners # {} => permissions'.owners # {}
       /\ \A x \in Users :
             (x \in permissions.owners /\ x \notin permissions'.owners) =>
                 /\ step'.op = "messageTargetAnswer"
                 /\ StepCommand = "removeowner"
                 /\ rosterId(step'.msg[2]) = x
                 /\ step'.u # x
                 /\ step'.u \in permissions.owners
                 /\ step'.u \in permissions'.owners]_vars

\* C33 witness: both users were owners; u2 removed u1 and is the one owner
\* left.
C33_Witness ==
    /\ step.op = "messageTargetAnswer"
    /\ step.u = "u2"
    /\ step.msg[1].word = "removeowner"
    /\ step.replies = <<"OwnerRemoved">>
    /\ permissions.owners = {"u2"}

-----------------------------------------------------------------------------
(* The position guard: the owner u1 freezes and unfreezes, every user moves, *)
(* u2 leaves and joins, time passes; the movement correction is switched on *)
(* or off by the configuration                                              *)

\* the clock of this specification stops here
FreezeClock == 1

\* the pose found for u1 in the loaded frozenUsers document
LoadedPose == pos(1000, 0, 0, "front")

\* the positions movement events report
MovePositions ==
    {pos(1000, 0, 0, "back"), pos(1, 0, 0, "back"), pos(10, 10, -10, "back"),
     pos(11, 0, 0, "back"), pos(0, -11, 0, "back"), pos(0, 0, 11, "back"),
     pos(0, 2000, 0, "back"), pos(0, 2001, 0, "back"),
     pos(3000, 0, 4000, "back"), pos(3000, 0, 4001, "back")}

\* what bot.room.cache.position answers
CachedPositions == {RestPose, pos(0, 3000, 0, "front"), NoPosition}

FreezeCommands ==
    {<<tok("!", c), tok("@", x)>> : c \in {"freeze", "unfreeze"}, x \in Users}
    \cup {<<tok("!", "k"), tok("@", "u2")>>}

InitFreeze ==
    /\ present = Users
    /\ now = 0
    /\ permissions = [owners |-> {"u1"}, mods |-> {}]
    /\ bannedUsers = EmptyMap
    /\ mutedUsers = EmptyMap
    /\ badWords = <<>>
    /\ frozenUsers \in {EmptyMap, [u \in {"u1"} |-> LoadedPose]}
    /\ emoteLoops = EmptyMap
    /\ chains = [u \in Users |-> [c \in ChainIds |-> DeadChain]]
    /\ awaiting = EmptyMap
    /\ userLastSeen = EmptyMap
    /\ botLastSetLocation = defaultBotLocation
    /\ emptyDocs = {}
    /\ store = Store(FALSE, {})
    /\ correctionEnabled \in BOOLEAN
    /\ autoGreeting = FALSE
    /\ joining = [u \in Users |-> <<>>]
    /\ stopped = {}
    /\ step = NoStep

NextFreeze ==
    \/ \E m \in FreezeCommands : ChatCreate("u1", m)
    \/ \E ok \in BOOLEAN : TargetAnswer("u1", ok)
    \/ \E ok \in BOOLEAN, p \in AnswerPositions, done \in BOOLEAN :
          HandlerAnswer("u1", ok, p, done)
    \/ \E u \in Senders, p \in MovePositions, c \in CachedPositions :
          PlayerMove(u, p, c)
    \/ PlayerLeave("u2")
    \/ PlayerJoin("u2")
    \/ now < FreezeClock /\ Advance

FreezeSpec == InitFreeze /\ [][NextFreeze]_vars

\* the teleport of user u to pose p
Teleport(u, p) == [kind |-> "teleport", target |-> u, pos |-> p]

\* position p is off pose q by more than the tolerance on some axis
OffPose(p, q) ==
    \/ p.x - q.x > tolerance \/ q.x - p.x > tolerance
    \/ p.y - q.y > tolerance \/ q.y - p.y > tolerance
    \/ p.z - q.z > tolerance \/ q.z - p.z > tolerance

\* C15: while X is in the frozen map with locked pose P, a movement event of
\* X to a position off P by more than the tolerance on some axis triggers
\* exactly one teleport of X to P, with the facing of P, and a movement
\* event within the tolerance on all axes triggers none.
C15_FrozenEnforced ==
    [][\A u \in Users, p \in MovePositions, c \in CachedPositions :
          (step'.op = "playerMove" /\ step'.u = u /\ u \in DOMAIN frozenUsers
             /\ PlayerMove(u, p, c)) =>
              IF OffPose(p, frozenUsers[u])
              THEN step'.acts = <<Teleport(u, frozenUsers[u])>>
              ELSE step'.acts = <<>>]_vars

\* C16: an entry of the frozen map is removed only by the unfreeze command
\* for its user and replaced only by a freeze command for its user: no
\* movement event, leave, join, teleport, minute that passes or command
\* about another user removes or alters it.
C16_FrozenKept ==
    [][\A x \in DOMAIN frozenUsers :
          \/ x \in DOMAIN frozenUsers' /\ frozenUsers'[x] = frozenUsers[x]
          \/ /\ step'.op = "unfreezeName"
             /\ StepTarget = x
             /\ x \notin DOMAIN frozenUsers'
          \/ /\ step'.op = "freezePos"
             /\ StepTarget = x
             /\ x \in DOMAIN frozenUsers']_vars

\* C16 witness: with u1 and u2 both frozen, at the last minute of the clock,
\* a movement event of u1 was answered with a teleport and the pose of u1 in
\* the map is the loaded one.
C16_Witness ==
    /\ step.op = "playerMove"
    /\ step.u = "u1"
    /\ step.acts # <<>>
    /\ now = FreezeClock
    /\ "u2" \in DOMAIN frozenUsers
    /\ "u1" \in DOMAIN frozenUsers
    /\ frozenUsers["u1"] = LoadedPose

\* C17: a movement event issues at most one teleport and no reply; none for
\* the bot; for a frozen user only to the locked pose; for a user who is not
\* frozen only to the reported position, and only if the cache holds a
\* position from which the vertical delta exceeds the threshold or the
\* Euclidean displacement exceeds the maximum.
C17_OneBranch ==
    [][\A u \in Senders, p \in MovePositions, c \in CachedPositions :
          (step'.op = "playerMove" /\ step'.u = u /\ PlayerMove(u, p, c)) =>
              /\ Len(step'.acts) <= 1
              /\ step'.replies = <<>>
              /\ u = BotId => step'.acts = <<>>
              /\ (u \in DOMAIN frozenUsers /\ step'.acts # <<>>) =>
                    step'.acts = <<Teleport(u, frozenUsers[u])>>
              /\ (u \notin DOMAIN frozenUsers /\ step'.acts # <<>>) =>
                    /\ step'.acts = <<Teleport(u, p)>>
                    /\ c # NoPosition
                    /\ \/ p.y - c.y > y_threshold
                       \/ c.y - p.y > y_threshold
                       \/ (p.x - c.x) * (p.x - c.x) + (p.y - c.y) * (p.y - c.y)
                            + (p.z - c.z) * (p.z - c.z)
                          > max_distance_teleport * max_distance_teleport]_vars

\* C17 witness: u2, who is not frozen, rose by more than the threshold and
\* was teleported to the position reported.
C17_Witness ==
    /\ step.op = "playerMove"
    /\ step.u = "u2"
    /\ "u2" \notin DOMAIN frozenUsers
    /\ step.acts = <<Teleport("u2", pos(0, 2001, 0, "back"))>>

-----------------------------------------------------------------------------
(* Unprefixed emote messages and unknown commands in the three channels:    *)
(* u1 and u2 write in public chat, u2 also by direct message and whisper,    *)
(* and the emote loop of u1 runs; u2 is the owner, u1 has no role           *)

\* the messages of this specification; foo is in no table of the configuration
EmoteChat ==
    {<<tok("", "wave"), tok("@", "u2")>>, <<Tok("", "wave"), Tok("@", "u2")>>,
     <<tok("", "broken"), tok("@", "u2")>>, <<tok("", "wave")>>,
     <<tok("!", "foo")>>}

EmoteDm ==
    {<<tok("", "wave")>>, <<tok("", "wave"), tok("@", "u2")>>, <<tok("!", "foo")>>}

EmoteWhisper == {<<tok("", "wave")>>, <<tok("", "wave"), tok("@", "u2")>>}

InitEmote ==
    /\ present = Users
    /\ now = 0
    /\ permissions = [owners |-> {"u2"}, mods |-> {}]
    /\ bannedUsers = EmptyMap
    /\ mutedUsers = EmptyMap
    /\ badWords = <<>>
    /\ frozenUsers = EmptyMap
    /\ emoteLoops = EmptyMap
    /\ chains = [u \in Users |-> [c \in ChainIds |-> DeadChain]]
    /\ awaiting = EmptyMap
    /\ userLastSeen = EmptyMap
    /\ botLastSetLocation = defaultBotLocation
    /\ emptyDocs = {}
    /\ store = Store(FALSE, {})
    /\ correctionEnabled = TRUE
    /\ autoGreeting = FALSE
    /\ joining = [u \in Users |-> <<>>]
    /\ stopped = {}
    /\ step = NoStep

NextEmote ==
    \/ \E u \in Users, m \in EmoteChat : ChatCreate(u, m)
    \/ \E u \in Users, ok \in BOOLEAN : EmoteAtAnswer(u, ok)
    \/ \E ok \in BOOLEAN : LoopSendDone("u1", ok)
    \/ \E c \in ChainIds : TimerFire("u1", c)
    \/ \E c \in ChainIds : RosterAnswer("u1", c)
    \/ \E c \in ChainIds : EmoteResolve("u1", c)
    \/ \E m \in EmoteDm : MessageCreate("u2", m)
    \/ \E ok \in BOOLEAN : UsernameAnswer("u2", ok)
    \/ \E m \in EmoteWhisper : WhisperCreate("u2", m)
    \/ PlayerLeave("u2")
    \/ PlayerJoin("u2")

EmoteSpec == InitEmote /\ [][NextEmote]_vars

\* the emote action of emote e on user x
EmoteOn(x, e) ==
    [kind |-> "emote", target |-> x, emoteId |-> emoteDefinitions[e].id]

\* message m is "<emote> @<user>" with a key of emoteDefinitions
EmoteAtPattern(m) ==
    emoteRegex(toLowerCase(m)) /\ toLowerCase(m)[1].word \in EmoteNames

\* C18: a public message "<emote> @<user>" without prefix, of a sender who is
\* neither muted nor banned, with a key of emoteDefinitions that has an emote
\* id, is not answered and starts nothing when it arrives; when the roster
\* answers and has the user, exactly one emote action of that emote goes to
\* that user, with no reply, no change of the emote loops, no lookup in the
\* command tables and nothing left pending.
C18_EmoteAt ==
    [][\A u \in Users :
          /\ (step'.op = "chatCreate" /\ step'.u = u /\ EmoteAtPattern(step'.msg)) =>
                /\ step'.replies = <<>>
                /\ step'.acts = <<>>
                /\ u \in DOMAIN awaiting'
                /\ awaiting'[u].kind = "emoteAt"
                /\ UNCHANGED <<emoteLoops, chains>>
          /\ (/\ step'.op = "emoteAtAnswer"
              /\ step'.u = u
              /\ EmoteAtAnswer(u, TRUE)
              /\ awaiting[u].msg[2].word \in present
              /\ emoteDefinitions[awaiting[u].msg[1].word].id # NoId) =>
                /\ step'.acts = <<EmoteOn(awaiting[u].msg[2].word,
                                         awaiting[u].msg[1].word)>>
                /\ step'.replies = <<>>
                /\ step'.handler = "singleEmote"
                /\ step'.roleChecks = 0
                /\ u \notin DOMAIN awaiting'
                /\ UNCHANGED <<emoteLoops, chains>>]_vars

\* C18 witness: u1, who has no role, wrote "Wave @U2" in public chat and the
\* one action of the step is the wave emote on u2, with no reply.
C18_Witness ==
    /\ step.op = "emoteAtAnswer"
    /\ step.u = "u1"
    /\ step.msg = <<Tok("", "wave"), Tok("@", "u2")>>
    /\ step.acts = <<EmoteOn("u2", "wave")>>
    /\ step.replies = <<>>
    /\ "u1" \notin permissions.owners \cup permissions.mods

\* message m is an emote keyword or "<emote> @<user>", without prefix
BareEmote(m) == isEmoteName(m) \/ EmoteAtPattern(m)

\* the step about to be taken handles the message that u sent in channel
\* chan as an emote request
EmoteRequest(u, chan) ==
    \/ step'.handler \in {"emoteLoop", "singleEmote"}
    \/ /\ u \in DOMAIN awaiting'
       /\ awaiting'[u] = [kind |-> "emoteAt", chan |-> chan, msg |-> step'.msg]

\* the step about to be taken is the one in which the handler of channel
\* chan looks at the text of the message of u
ReadsText(u, chan) ==
    /\ step'.u = u
    /\ step'.op = CASE chan = "public" -> "chatCreate"
                    [] chan = "dm" -> "usernameAnswer"
                    [] OTHER -> "whisperCreate"

KnownCommands ==
    public_chat_only \cup dm_only \cup dm_public_chat
    \cup commandPermissions.mod \cup commandPermissions.owner

\* C20: a prefixed message routed in public chat or by direct message whose
\* command name is not a known command is answered with the "unknown
\* command" reply.
C20_UnknownCommandFeedback ==
    [][\A u \in Users, chan \in {"public", "dm"} :
          (Routes(u, chan) /\ Command \notin KnownCommands) =>
              step'.replies = <<"UnknownCommand">>]_vars

-----------------------------------------------------------------------------
(* Rejections and failures                                                  *)

\* the commands whose case of the switch asks for an argument
NeedsArgument ==
    {"idban", "idunban", "idmute", "idunmute", "role", "unrole", "summon",
     "freeze", "unfreeze", "k", "b", "m", "addowner", "removeowner", "bad", "rbad"}

\* the step about to be taken rejects the message of u: wrong channel,
\* insufficient role, missing argument, or a target that the roster, which
\* answered, does not hold
Rejects(u) ==
    \/ \E chan \in {"public", "dm"} :
          /\ Routes(u, chan)
          /\ \/ ~InChannel(Command, chan)
             \/ UserRank(u) < NeededRank(Command)
             \/ Len(step'.msg) = 1 /\ Command \in NeedsArgument
    \/ /\ step'.u = u
       /\ step'.op \in {"targetAnswer", "messageTargetAnswer"}
       /\ rosterId(step'.msg[2]) = NoTarget
    \/ /\ step'.u = u
       /\ step'.op = "emoteAtAnswer"
       /\ EmoteAtAnswer(u, TRUE)
       /\ rosterFind(toLowerCase(step'.msg)[2]) = NoTarget

\* C21: a message recognized as a command, prefixed or "<emote> @<user>",
\* that is rejected (wrong channel, insufficient role, missing argument,
\* target not in the roster) is answered with at least one reply, and
\* nothing else happens: no handler runs, no action is issued, nothing is
\* left pending and no registry changes.
C21_RejectionAnswered ==
    [][\A u \in Users :
          Rejects(u) =>
              /\ step'.replies # <<>>
              /\ step'.acts = <<>>
              /\ step'.handler = "none"
              /\ u \notin DOMAIN awaiting'
              /\ UNCHANGED <<permissions, bannedUsers, mutedUsers, badWords,
                             frozenUsers, emoteLoops, chains>>]_vars

\* C22: when a lookup or an action of the Event Bridge that a command
\* handler awaits is rejected (roster lookup, username lookup, position,
\* teleport, kick, ban, mute), the sender gets a reply and the handler is
\* over: nothing of it is left pending, so that later events are taken.
C22_FailureReported ==
    [][\A u \in Users :
          /\ (/\ step'.u = u
              /\ step'.op \in {"bridgeFailed", "targetFailed", "messageTargetFailed"}) =>
                /\ step'.replies # <<>>
                /\ u \notin DOMAIN awaiting'
          /\ \A p \in AnswerPositions :
                (HandlerAnswer(u, TRUE, p, FALSE) /\ step'.acts # <<>>) =>
                    /\ step'.replies # <<>>
                    /\ u \notin DOMAIN awaiting']_vars

-----------------------------------------------------------------------------
(* The bad-word list: the owner u1 adds and removes words by direct message, *)
(* u2 writes in public chat                                                  *)

\* "!bad <word>" and "!rbad <word>" with the word in either case
BadWordDm ==
    {<<tok("!", c), tok("", w)>> : c \in {"bad", "rbad"}, w \in {"spam", "ham"}}
    \cup {<<tok("!", c), Tok("", w)>> : c \in {"bad", "rbad"}, w \in {"spam", "ham"}}

\* public texts: "no SPAMMING here", "spam", "Ham", "hello"
BadWordChat ==
    {<<tok("", "no"), Tok("", "spamming"), tok("", "here")>>, <<tok("", "spam")>>,
     <<Tok("", "ham")>>, <<tok("", "hello")>>}

InitBadWord ==
    /\ present = Users
    /\ now = 0
    /\ permissions = [owners |-> {"u1"}, mods |-> {}]
    /\ bannedUsers = EmptyMap
    /\ mutedUsers = EmptyMap
    /\ badWords = <<>>
    /\ frozenUsers = EmptyMap
    /\ emoteLoops = EmptyMap
    /\ chains = [u \in Users |-> [c \in ChainIds |-> DeadChain]]
    /\ awaiting = EmptyMap
    /\ userLastSeen = EmptyMap
    /\ botLastSetLocation = defaultBotLocation
    /\ emptyDocs = {}
    /\ store = Store(FALSE, {})
    /\ correctionEnabled = TRUE
    /\ autoGreeting = FALSE
    /\ joining = [u \in Users |-> <<>>]
    /\ stopped = {}
    /\ step = NoStep

NextBadWord ==
    \/ \E m \in BadWordDm : MessageCreate("u1", m)
    \/ \E ok \in BOOLEAN : UsernameAnswer("u1", ok)
    \/ \E m \in BadWordChat : ChatCreate("u2", m)

BadWordSpec == InitBadWord /\ [][NextBadWord]_vars

\* some word of the list, whatever its case, is a substring of some word of
\* the text m, whatever its case
HasListedWord(words, m) ==
    \E i \in DOMAIN words : \E j \in DOMAIN m : includes(m[j].word, words[i].word)

\* C23: a public message of a sender who is not muted or banned gets the
\* forbidden-word warning exactly when some word of the list is a substring
\* of the text, the case of the text and the case in which the word was
\* added set aside; containsBadWord says the same of every text.
C23_BadWordMatch ==
    [][/\ \A m \in BadWordChat :
             containsBadWordIn(badWords', m) <=> HasListedWord(badWords', m)
       /\ \A u \in Users :
             (step'.op = "chatCreate" /\ step'.u = u) =>
                 (step'.replies = <<"BadWordWarning">>
                    <=> HasListedWord(badWords, step'.msg))]_vars

\* C23 witness: with spam in the list, which only "!bad Spam" or "!bad spam"
\* put there, "no SPAMMING here" got the warning.
C23_Witness ==
    /\ step.op = "chatCreate"
    /\ step.msg = <<tok("", "no"), Tok("", "spamming"), tok("", "here")>>
    /\ step.replies = <<"BadWordWarning">>
    /\ badWords = <<str("spam", FALSE)>>

\* the step about to be taken is the case c of the messageCreate switch for
\* the owner u, with an argument
BadWordCase(u, c) ==
    /\ Routes(u, "dm")
    /\ Command = c
    /\ u \in permissions.owners
    /\ Len(step'.msg) = 2

\* the words of the list
ListedWords(words) == {words[i] : i \in DOMAIN words}

-----------------------------------------------------------------------------
(* The store: writes that stay under way after the step that started them   *)
(* and land in any order, files that cannot be written, the greeting of a   *)
(* user who joins and the setbot command                                    *)

\* a write of fs.writeFile that is under way finishes: the file holds the
\* JSON text handed to that call
WriteDone(i) ==
    /\ i \in 1..Len(store.inflight)
    /\ store' = [store EXCEPT !.files[store.inflight[i].doc] = store.inflight[i].data,
                              !.inflight = dropAt(@, i)]
    /\ step' = [NoStep EXCEPT !.op = "writeDone"]
    /\ UNCHANGED <<present, now, permissions, bannedUsers, mutedUsers, badWords,
                   frozenUsers, emoteLoops, chains, awaiting, userLastSeen,
                   botLastSetLocation, emptyDocs, correctionEnabled,
                   autoGreeting, joining, stopped>>

StoreChat ==
    {<<tok("!", c), tok("@", "u2")>> : c \in {"role", "unrole"}}
    \cup {<<tok("!", "setbot")>>}

\* the files that cannot be written
FailingSets == {{}, {"roles"}, {"botLocation", "userLastSeen"}}

InitStore ==
    /\ present = Users
    /\ now = 0
    /\ permissions = [owners |-> {"u1"}, mods |-> {}]
    /\ bannedUsers = EmptyMap
    /\ mutedUsers = EmptyMap
    /\ badWords = <<>>
    /\ frozenUsers = EmptyMap
    /\ emoteLoops = EmptyMap
    /\ chains = [u \in Users |-> [c \in ChainIds |-> DeadChain]]
    /\ awaiting = EmptyMap
    /\ userLastSeen = EmptyMap
    /\ botLastSetLocation = defaultBotLocation
    /\ emptyDocs = {}
    /\ \E f \in FailingSets : store = Store(TRUE, f)
    /\ correctionEnabled = TRUE
    /\ autoGreeting \in BOOLEAN
    /\ joining = [u \in Users |-> <<>>]
    /\ stopped = {}
    /\ step = NoStep

NextStore ==
    \/ \E m \in StoreChat : ChatCreate("u1", m)
    \/ \E ok \in BOOLEAN : TargetAnswer("u1", ok)
    \/ \E ok \in BOOLEAN, p \in CachedPositions, done \in BOOLEAN :
          HandlerAnswer("u1", ok, p, done)
    \/ PlayerLeave("u2")
    \/ PlayerJoin("u2")
    \/ \E i \in 1..MaxJoins, ok \in BOOLEAN : GreetingSent("u2", i, ok)
    \/ \E i \in 1..MaxWrites : WriteDone(i)

StoreSpec == InitStore /\ [][NextStore]_vars

\* no handler is running, no write is under way and no write has failed
Quiescent ==
    /\ awaiting = EmptyMap
    /\ \A u \in Users : joining[u] = <<>>
    /\ store.inflight = <<>>
    /\ store.failed = {}

\* C25: whenever no handler is running, no write is under way and no write
\* has failed, the stored copy of every document equals the in-memory copy.
C25_StoreMatchesMemory == Quiescent => store.files = Memory

\* the registries a handler would see if every file could be written
Writable == [Registries EXCEPT !.failing = {}]

\* the registries s hold what the step about to be taken leaves in memory
\* and sends
LeftBy(s) ==
    /\ permissions' = s.perm
    /\ botLastSetLocation' = s.anchor
    /\ userLastSeen' = s.lastSeen
    /\ awaiting' = s.wait
    /\ step'.replies = s.replies
    /\ step'.acts = s.acts

\* C26: a write that fails is swallowed: the step of the handler leaves in
\* memory and sends exactly what it would with the write succeeding, nothing
\* is thrown, and the file that cannot be written keeps what it held.
C26_FailedWriteSwallowed ==
    [][/\ \A ok \in BOOLEAN :
             (step'.op \in {"targetAnswer", "targetFailed"} /\ TargetAnswer("u1", ok)) =>
                 LET m == awaiting["u1"].msg IN
                 /\ LeftBy(chatTarget(resume(Writable, "u1"), "u1", m,
                                      rosterId(m[2]), ~ok, now))
                 /\ ~step'.threw
       /\ \A ok \in BOOLEAN, p \in CachedPositions, done \in BOOLEAN :
             (step'.op \in {"setbotPos", "bridgeFailed"}
                  /\ HandlerAnswer("u1", ok, p, done)) =>
                 /\ LeftBy(handlerResume(resume(Writable, "u1"), "u1",
                                         awaiting["u1"], ok, p, done))
                 /\ ~step'.threw
       /\ \A i \in 1..MaxJoins :
             (step'.op = "greetingSent" /\ GreetingSent("u2", i, TRUE)) =>
                 /\ LeftBy(greetingSent(Writable, "u2", i, TRUE))
                 /\ ~step'.threw
       /\ \A d \in store.failing : store'.files[d] = store.files[d]]_vars

\* C26 witness: roles.json cannot be written; "!role @u2" of the owner was
\* answered as assigned, u2 is a mod in memory and not in the file.
C26_Witness ==
    /\ step.op = "targetAnswer"
    /\ step.replies = <<"RoleAssigned">>
    /\ ~step.threw
    /\ "roles" \in store.failed
    /\ "u2" \in permissions.mods
    /\ "u2" \notin store.files.roles.mods

\* C28: with the greeting enabled, a user who joins is greeted as a
\* first-time user exactly when the Last-Seen Map has no entry for them and
\* as a returning user otherwise, the entry is there once the greeting was
\* sent, and a user greeted as a first-time user is not one whose earlier
\* join already was: each user gets the first-time greeting at most once.
C28_FirstGreetingOnce ==
    [][\A u \in Users :
          /\ (autoGreeting /\ step'.op = "playerJoin" /\ step'.u = u) =>
                /\ step'.replies =
                       <<IF u \in DOMAIN userLastSeen
                         THEN "ReturningGreeting" ELSE "FirstTimeGreeting">>
                /\ step'.replies = <<"FirstTimeGreeting">> => joining[u] = <<>>
          /\ (step'.op = "greetingSent" /\ step'.u = u) =>
                u \in DOMAIN userLastSeen']_vars

-----------------------------------------------------------------------------
(* The Bot Anchor: setbot from an owner and from a user who is a mod at     *)
(* times, among role changes, summons, movements, leaves and joins          *)

AnchorChat ==
    {<<tok("!", "setbot")>>, <<tok("!", "myid")>>}
    \cup {<<tok("!", c), tok("@", "u2")>> : c \in {"role", "unrole", "summon"}}

InitAnchor ==
    /\ present = Users
    /\ now = 0
    /\ permissions = [owners |-> {"u1"}, mods |-> {}]
    /\ bannedUsers = EmptyMap
    /\ mutedUsers = EmptyMap
    /\ badWords = <<>>
    /\ frozenUsers = EmptyMap
    /\ emoteLoops = EmptyMap
    /\ chains = [u \in Users |-> [c \in ChainIds |-> DeadChain]]
    /\ awaiting = EmptyMap
    /\ userLastSeen = EmptyMap
    /\ botLastSetLocation = defaultBotLocation
    /\ emptyDocs = {}
    /\ store = Store(FALSE, {})
    /\ correctionEnabled = TRUE
    /\ autoGreeting = TRUE
    /\ joining = [u \in Users |-> <<>>]
    /\ stopped = {}
    /\ step = NoStep

NextAnchor ==
    \/ \E u \in Users, m \in AnchorChat : ChatCreate(u, m)
    \/ \E u \in Users, ok \in BOOLEAN : TargetAnswer(u, ok)
    \/ \E u \in Users, ok \in BOOLEAN, p \in CachedPositions, done \in BOOLEAN :
          HandlerAnswer(u, ok, p, done)
    \/ \E p \in CachedPositions \ {NoPosition} : PlayerMove("u2", p, RestPose)
    \/ PlayerLeave("u2")
    \/ PlayerJoin("u2")
    \/ \E ok \in BOOLEAN : GreetingSent("u2", 1, ok)

AnchorSpec == InitAnchor /\ [][NextAnchor]_vars

\* C29: the Bot Anchor changes only in the step in which a setbot handler
\* got the position of its sender and the teleport of the bot there
\* resolved, and then it is that position, saved; a setbot handler is only
\* ever started for a sender who is an owner or a mod; and a setbot that
\* gets no position, or whose request or teleport fails, leaves the anchor
\* in memory and in the store as it was.
C29_AnchorOnlyBySetbot ==
    [][/\ (botLastSetLocation' # botLastSetLocation
               \/ store'.files.botLocation # store.files.botLocation) =>
             /\ step'.op = "setbotPos"
             /\ step'.msg = <<tok("!", "setbot")>>
             /\ step'.replies = <<"BotLocationSaved">>
             /\ step'.acts = <<[kind |-> "teleport", target |-> BotId,
                                pos |-> botLastSetLocation']>>
             /\ botLastSetLocation' # NoPosition
             /\ store'.files.botLocation = botLastSetLocation'
       /\ \A u \in Users :
             (/\ u \in DOMAIN awaiting'
              /\ awaiting'[u].kind = "setbotPos"
              /\ (u \in DOMAIN awaiting => awaiting[u].kind # "setbotPos")) =>
                 /\ step'.op = "chatCreate"
                 /\ step'.u = u
                 /\ getRole(Registries, u) \in {"owner", "mod"}
       /\ \A u \in Users :
             (/\ u \in DOMAIN awaiting
              /\ awaiting[u].kind = "setbotPos"
              /\ step'.u = u
              /\ step'.op \in {"setbotPos", "bridgeFailed"}
              /\ step'.replies # <<"BotLocationSaved">>) =>
                 /\ botLastSetLocation' = botLastSetLocation
                 /\ store' = store]_vars

\* C29 witness: "!setbot" of u2, a mod, moved the bot to where u2 stands and
\* that position is the anchor in memory and in the store.
C29_Witness ==
    /\ step.op = "setbotPos"
    /\ step.u = "u2"
    /\ step.replies = <<"BotLocationSaved">>
    /\ botLastSetLocation = pos(0, 3000, 0, "front")
    /\ store.files.botLocation = botLastSetLocation

\* C29 witness of the failures: the teleport of the bot was rejected, the
\* sender was told and the anchor is the one loaded at the start.
C29_FailureWitness ==
    /\ step.op = "setbotPos"
    /\ step.replies = <<"SetBotFailed">>
    /\ step.acts # <<>>
    /\ botLastSetLocation = defaultBotLocation

-----------------------------------------------------------------------------
(* Guarding reads and their writes: the owner u1 freezes and unfreezes a    *)
(* third user of the room while the owner u2 changes the role of that user  *)
(* and bans them                                                            *)

\* the user the commands are about
Bystander == "u3"

RaceFreeze == {<<tok("!", c), tok("@", Bystander)>> : c \in {"freeze", "unfreeze"}}

RaceRole ==
    {<<tok("!", c), tok("@", Bystander)>> : c \in {"role", "unrole", "idban", "idunban"}}

InitRace ==
    /\ present = Users \cup {Bystander}
    /\ now = 0
    /\ permissions = [owners |-> Users, mods |-> {}]
    /\ bannedUsers = EmptyMap
    /\ mutedUsers = EmptyMap
    /\ badWords = <<>>
    /\ frozenUsers = EmptyMap
    /\ emoteLoops = EmptyMap
    /\ chains = [u \in Users |-> [c \in ChainIds |-> DeadChain]]
    /\ awaiting = EmptyMap
    /\ userLastSeen = EmptyMap
    /\ botLastSetLocation = defaultBotLocation
    /\ emptyDocs = {}
    /\ store = Store(FALSE, {})
    /\ correctionEnabled = TRUE
    /\ autoGreeting = FALSE
    /\ joining = [u \in Users |-> <<>>]
    /\ stopped = {}
    /\ step = NoStep

NextRace ==
    \/ \E m \in RaceFreeze : ChatCreate("u1", m)
    \/ \E m \in RaceRole : ChatCreate("u2", m)
    \/ \E u \in Users, ok \in BOOLEAN : TargetAnswer(u, ok)
    \/ \E ok \in BOOLEAN, p \in AnswerPositions : HandlerAnswer("u1", ok, p, TRUE)

RaceSpec == InitRace /\ [][NextRace]_vars

\* C30: no entry of the frozen map is written for a user who is a mod or an
\* owner at the moment of the write.
C30_NoProtectedFrozen ==
    [][\A x \in present :
          (/\ x \in DOMAIN frozenUsers'
           /\ x \notin DOMAIN frozenUsers) =>
              x \notin permissions'.owners \cup permissions'.mods]_vars

-----------------------------------------------------------------------------
(* Degraded start: documents that were missing or unreadable when the bot   *)
(* started and that loadJson replaced by the empty object                   *)

\* the documents loadAllConfigs takes as loadJson returns them
UnrepairedDocuments == {"roles", "bannedCommands", "mutedMessages", "badWords"}

DegradedChat ==
    {<<tok("", "hello")>>, <<tok("!", "help")>>, <<tok("!", "myid")>>,
     <<tok("!", "role"), tok("@", "u2")>>}

DegradedDm == {<<tok("", "hello")>>, <<tok("!", "help")>>, <<tok("!", "listbadword")>>}

InitDegraded ==
    /\ present = Users
    /\ now = 0
    /\ permissions = [owners |-> {}, mods |-> {}]
    /\ bannedUsers = EmptyMap
    /\ mutedUsers = EmptyMap
    /\ badWords = <<>>
    /\ frozenUsers = EmptyMap
    /\ emoteLoops = EmptyMap
    /\ chains = [u \in Users |-> [c \in ChainIds |-> DeadChain]]
    /\ awaiting = EmptyMap
    /\ userLastSeen = EmptyMap
    /\ botLastSetLocation = defaultBotLocation
    /\ emptyDocs \in (SUBSET UnrepairedDocuments) \ {{}}
    /\ store = Store(FALSE, {})
    /\ correctionEnabled = TRUE
    /\ autoGreeting = TRUE
    /\ joining = [u \in Users |-> <<>>]
    /\ stopped = {}
    /\ step = NoStep

NextDegraded ==
    \/ \E u \in Users, m \in DegradedChat : ChatCreate(u, m)
    \/ \E u \in Users, ok \in BOOLEAN : TargetAnswer(u, ok)
    \/ \E u \in Users, m \in DegradedDm : MessageCreate(u, m)
    \/ \E u \in Users, ok \in BOOLEAN : UsernameAnswer(u, ok)
    \/ \E u \in Users, m \in DegradedDm : WhisperCreate(u, m)
    \/ PlayerLeave("u2")
    \/ PlayerJoin("u2")
    \/ \E i \in 1..MaxJoins, ok \in BOOLEAN : GreetingSent("u2", i, ok)

DegradedSpec == InitDegraded /\ [][NextDegraded]_vars

\* C27: after a start with a missing or unreadable document the bot keeps
\* working: no chat message, direct message or whisper makes its handler
\* fail.
C27_DegradedStartWorks ==
    step.op \in {"chatCreate", "messageCreate", "whisperCreate", "targetAnswer",
                 "usernameAnswer"} => ~step.threw

\* C36: a loop request for an emote whose definition has no id leaves the
\* registry entry, the timers and the ticks of the sender as they were.
C36_RejectedStartKeepsLoop ==
    [][\A u \in LoopUsers :
          (/\ step'.op = "chatCreate"
           /\ step'.u = u
           /\ Len(step'.msg) = 1
           /\ step'.msg[1].word \in EmoteNames
           /\ emoteDefinitions[step'.msg[1].word].id = NoId) =>
              /\ emoteLoops' = emoteLoops
              /\ chains' = chains]_vars

\* the last step was a tick of the loop of u invoking the emote action, its
\* presence check answered just before in the same tick
Acted(u) == step.op = "tickPresent" /\ step.u = u

\* u is in the room and the last step was no loop request or stop of u and
\* no emote action of u that failed
Calm(u) ==
    /\ u \in present
    /\ ~(step.u = u /\ step.op \in {"chatCreate", "loopSendDone", "tickEmoteFailed"})

\* C32: once the loop of a user has invoked an emote action and from then on
\* the user stays in the room, sends no stop and no loop request and no emote
\* action fails, the loop invokes emote actions again and again.
C32_LoopRepeats ==
    \A u \in LoopUsers : []((Acted(u) /\ []Calm(u)) => []<>Acted(u))

\* the same with the presence lookups of the ticks never failing either
C32_LoopRepeatsUnlessLookupFails ==
    \A u \in LoopUsers :
        []((Acted(u) /\ []Calm(u) /\ [](step.op # "tickLookupFailed")) => []<>Acted(u))

-----------------------------------------------------------------------------
(* Two loops side by side: loop requests, stops, leaves, joins and ticks of *)
(* both users                                                               *)

IsolationMessages == {<<tok("", "wave")>>, <<tok("!", "stop")>>}

\* both users start and stop loops, leave and join, with ticks that succeed
\* and fail; u2 starts a loop only when none of its ticks or timers is left
NextIsolation ==
    \/ \E m \in IsolationMessages : ChatCreate("u1", m)
    \/ LiveTasks("u2") = {} /\ ChatCreate("u2", <<tok("", "wave")>>)
    \/ ChatCreate("u2", <<tok("!", "stop")>>)
    \/ \E ok \in BOOLEAN : LoopSendDone("u1", ok)
    \/ \E u \in Users, c \in ChainIds : TimerFire(u, c)
    \/ \E u \in Users, c \in ChainIds : RosterAnswer(u, c)
    \/ \E u \in Users, c \in ChainIds : RosterReject(u, c)
    \/ \E u \in Users, c \in ChainIds : EmoteResolve(u, c)
    \/ \E u \in Users, c \in ChainIds : EmoteReject(u, c)
    \/ \E u \in Users : PlayerLeave(u)
    \/ \E u \in Users : PlayerJoin(u)

IsolationSpec == InitLoop /\ [][NextIsolation]_vars

\* what the loop machinery holds for user u: the registry entry, the timers
\* and ticks, and a loop request waiting to go on
LoopStateOf(u, loops, ch, wait) ==
    <<IF u \in DOMAIN loops THEN <<loops[u]>> ELSE <<>>,
      ch[u],
      IF u \in DOMAIN wait THEN <<wait[u]>> ELSE <<>>>>

\* C31: a loop start, stop, tick or leave of user A leaves the registry
\* entry, the timers and the ticks of every other user B as they were.
C31_LoopsIsolated ==
    [][\A a \in Users, b \in Users :
          (step'.u = a /\ b # a) =>
              LoopStateOf(b, emoteLoops', chains', awaiting')
                 = LoopStateOf(b, emoteLoops, chains, awaiting)]_vars

\* C31 witness: u1 stopped its loop while the loop of u2 is registered with
\* its timer pending.
C31_Witness ==
    /\ step.op = "chatCreate"
    /\ step.u = "u1"
    /\ step.replies = <<"LoopStopped">>
    /\ "u2" \in DOMAIN emoteLoops
    /\ \E c \in ChainIds : chains["u2"][c].pc = "timer"

-----------------------------------------------------------------------------
(* Scope and permission tables that let everything through: the switch of   *)
(* each router is reached by every sender with every command of the roles   *)
(* and of the ledgers, from every disjoint pair of an owner and a mod set    *)

PermissiveChat ==
    {<<tok("!", c), tok("@", x)>> :
        c \in {"idban", "idunban", "idmute", "idunmute", "role", "unrole"},
        x \in Users}
    \cup {<<tok("!", "myid")>>}

\* chatCreate from its switch on, the scope check and the role check of the
\* router having let the command of u through
DispatchPublic(u, m) ==
    /\ Commit(event("dispatchPublic", u, 0, m),
              switchPublic(Registries, u, m, m[1].word,
                           IF Len(m) >= 2 THEN rosterId(m[2]) ELSE NoTarget, now))
    /\ UNCHANGED <<present, now>>

\* messageCreate from its switch on
DispatchDm(u, m) ==
    /\ Commit(event("dispatchDm", u, 0, m),
              switchDm(Registries, u, m[1].word, rosterId(m[2]), firstArg(m)))
    /\ UNCHANGED <<present, now>>

NextPermissive ==
    \/ \E u \in Users, m \in PermissiveChat : DispatchPublic(u, m)
    \/ \E u \in Users, m \in RoleDm : DispatchDm(u, m)

PermissiveSpec == InitRole /\ [][NextPermissive]_vars

\* C34: with tables that let every command through, the owner set and the
\* mod set change only in a role, unrole, addowner or removeowner step whose
\* sender is an owner, and the ban and mute ledgers gain or lose an entry
\* only in an idban, idunban, idmute or idunmute step whose sender is a mod
\* or an owner.
C34_NoEscalation ==
    [][/\ permissions' # permissions =>
             /\ StepCommand \in {"role", "unrole", "addowner", "removeowner"}
             /\ step'.u \in permissions.owners
       /\ (DOMAIN bannedUsers' # DOMAIN bannedUsers
              \/ DOMAIN mutedUsers' # DOMAIN mutedUsers) =>
             /\ StepCommand \in {"idban", "idunban", "idmute", "idunmute"}
             /\ getRole(Registries, step'.u) \in {"owner", "mod"}]_vars

\* C34 witness: u2, a basic user, reached the idban case for u1 and was
\* refused by the handler; nobody is banned.
C34_Witness ==
    /\ step.op = "dispatchPublic"
    /\ step.u = "u2"
    /\ step.msg = <<tok("!", "idban"), tok("@", "u1")>>
    /\ step.replies = <<"NoPermission">>
    /\ permissions = [owners |-> {}, mods |-> {}]
    /\ bannedUsers = EmptyMap

-----------------------------------------------------------------------------
(* Channel scope: the owner u1 and u2, who has no role, send commands of     *)
(* every scope list and of none in public chat, by direct message and by    *)
(* whisper, with and without a target, while u2 leaves and joins            *)

\* emotelist has a case in the switch of messageCreate and foo has none; no
\* scope list names either
ScopeMessages ==
    {<<tok("!", c)>> : c \in {"help", "myid", "list", "emotelist", "foo"}}
    \cup {<<tok("!", c), tok("@", "u2")>> : c \in {"role", "addowner", "emotelist"}}

NextScope ==
    \/ \E u \in Users, m \in ScopeMessages : ChatCreate(u, m)
    \/ \E u \in Users, ok \in BOOLEAN : TargetAnswer(u, ok)
    \/ \E u \in Users, m \in ScopeMessages : MessageCreate(u, m)
    \/ \E u \in Users, ok \in BOOLEAN : UsernameAnswer(u, ok)
    \/ \E u \in Users, ok \in BOOLEAN : MessageTargetAnswer(u, ok)
    \/ \E u \in Users, m \in ScopeMessages : WhisperCreate(u, m)
    \/ PlayerLeave("u2")
    \/ PlayerJoin("u2")

ScopeSpec == InitAuth /\ [][NextScope]_vars

\* the step about to be taken made a role lookup or entered a handler
Dispatched == step'.roleChecks > 0 \/ step'.handler # "none"

\* C37: a prefixed command routed in a channel whose scope lists do not name
\* it gets the wrong-channel reply, with no role lookup, no handler and no
\* change; a step of a prefixed public or direct message makes a role lookup
\* or enters a handler only for a command the scope lists of its channel
\* name; and a prefixed whisper never does.
C37_DenyByDefault ==
    [][\A u \in Users :
          /\ \A chan \in {"public", "dm"} :
                (Routes(u, chan) /\ ~InChannel(Command, chan)) =>
                    /\ step'.replies = <<IF chan = "public" THEN "DmOnly" ELSE "PublicOnly">>
                    /\ ~Dispatched
                    /\ UNCHANGED <<permissions, bannedUsers, mutedUsers, badWords,
                                   frozenUsers, emoteLoops, chains>>
          /\ (step'.u = u /\ step'.msg # <<>> /\ Dispatched) =>
                \/ step'.op \in {"chatCreate", "targetAnswer"}
                      /\ InChannel(Command, "public")
                \/ step'.op \in {"usernameAnswer", "messageTargetAnswer"}
                      /\ InChannel(Command, "dm")
          /\ (step'.u = u /\ step'.op = "whisperCreate"
                 /\ startsWithPrefix(step'.msg)) =>
                /\ ~Dispatched
                /\ step'.replies = <<"PrefixInWhisper">>
                /\ UNCHANGED <<permissions, bannedUsers, mutedUsers, badWords,
                               frozenUsers, emoteLoops, chains>>]_vars

\* C37 witness: the owner sent "!emotelist", which no scope list names, by
\* direct message and was told that it works only in public chat.
C37_Witness ==
    /\ step.op = "usernameAnswer"
    /\ step.u = "u1"
    /\ step.msg = <<tok("!", "emotelist")>>
    /\ step.replies = <<"PublicOnly">>
    /\ step.handler = "none"

-----------------------------------------------------------------------------
(* The bad-word check against the command paths: with "wave" and "idmute"   *)
(* in the list, the owner u1 and u2, who is a moderator or has no role,     *)
(* write bare emotes, emotes at a user and prefixed commands in public chat *)
(* while time passes over a loaded ban and a loaded mute of u2              *)

\* the bad-word list found in the loaded document
LoadedWords == <<str("wave", FALSE), str("idmute", FALSE)>>

\* a mute as the mutedMessages document may hold it at startup
LoadedMute == [timestamp |-> 0, duration_minutes |-> MuteMinutes]

\* "wave", "Wave", "wave @u2", "!idmute @u2" and "!idmute" hold a listed
\* word; "hello" and "!myid" hold none
FilterChat ==
    {<<tok("", "wave")>>, <<Tok("", "wave")>>, <<tok("", "wave"), tok("@", "u2")>>,
     <<tok("!", "idmute"), tok("@", "u2")>>, <<tok("!", "idmute")>>,
     <<tok("", "hello")>>, <<tok("!", "myid")>>}

InitFilter ==
    /\ present = Users
    /\ now = 0
    /\ permissions \in {[owners |-> {"u1"}, mods |-> {}],
                        [owners |-> {"u1"}, mods |-> {"u2"}]}
    /\ bannedUsers \in {EmptyMap, [u \in {"u2"} |-> LoadedBan]}
    /\ mutedUsers \in {EmptyMap, [u \in {"u2"} |-> LoadedMute]}
    /\ badWords = LoadedWords
    /\ frozenUsers = EmptyMap
    /\ emoteLoops = EmptyMap
    /\ chains = [u \in Users |-> [c \in ChainIds |-> DeadChain]]
    /\ awaiting = EmptyMap
    /\ userLastSeen = EmptyMap
    /\ botLastSetLocation = defaultBotLocation
    /\ emptyDocs = {}
    /\ store = Store(FALSE, {})
    /\ correctionEnabled = TRUE
    /\ autoGreeting = FALSE
    /\ joining = [u \in Users |-> <<>>]
    /\ stopped = {}
    /\ step = NoStep

NextFilter ==
    \/ \E u \in Users, m \in FilterChat : ChatCreate(u, m)
    \/ Advance

FilterSpec == InitFilter /\ [][NextFilter]_vars

\* what a public message with a listed word of a sender who is not the bot
\* and has no unexpired mute or ban gets: the warning as the only reply, no
\* Event Bridge action, no handler left waiting for a lookup, no role lookup,
\* no handler entered, no loop started, and the registries as they were, the
\* two ledgers as banKept / muteKept say
WarnedContract(banKept(_), muteKept(_)) ==
    \A u \in Users :
        (/\ step'.op = "chatCreate"
         /\ step'.u = u
         /\ ~UnexpiredMute(u)
         /\ ~UnexpiredBan(u)
         /\ HasListedWord(badWords, step'.msg)) =>
            /\ step'.replies = <<"BadWordWarning">>
            /\ step'.acts = <<>>
            /\ ~Dispatched
            /\ u \notin DOMAIN awaiting'
            /\ banKept(u)
            /\ muteKept(u)
            /\ UNCHANGED <<permissions, badWords, frozenUsers, emoteLoops, chains,
                           awaiting, botLastSetLocation, userLastSeen>>

\* C39 (as stated): in public chat a message with a bad-word substring of a
\* sender of any role who is not the bot, muted or banned gets exactly one
\* warning reply and causes no emote action, loop start, target lookup,
\* command dispatch or state change, also when it is a valid bare emote or
\* prefixed command.
C39_WarningOnly == [][WarnedContract(BanLedgerKept, MuteLedgerKept)]_vars

\* C39 (amended): the same, the state changing at most by the removal of the
\* sender's own mute or ban record that had already run out.
C39_WarningBeforeCommands ==
    [][WarnedContract(BanLedgerKeptOrLapsed, MuteLedgerKeptOrLapsed)]_vars

\* C39 witness: the owner u1 typed the bare emote "wave", a listed word, and
\* got the warning; no loop runs for u1.
C39_Witness ==
    /\ step.op = "chatCreate"
    /\ step.u = "u1"
    /\ step.msg = <<tok("", "wave")>>
    /\ step.replies = <<"BadWordWarning">>
    /\ "u1" \in permissions.owners
    /\ "u1" \notin DOMAIN emoteLoops

\* C39 witness of a prefixed command: the moderator u2 sent "!idmute @u2",
\* got the warning, and no target lookup is pending.
C39_CommandWitness ==
    /\ step.op = "chatCreate"
    /\ step.u = "u2"
    /\ step.msg = <<tok("!", "idmute"), tok("@", "u2")>>
    /\ step.replies = <<"BadWordWarning">>
    /\ "u2" \in permissions.mods
    /\ awaiting = EmptyMap

====
